---- MODULE Spec2Model ----
(***************************************************************************)
(* Control core of the conversational edge device: the event scheduler     *)
(* (Application::Schedule / MainEventLoop), the device state machine       *)
(* (Application::SetDeviceState and its callers) and the session timers,   *)
(* modelled from src/main/application.cc, src/main/mcp_server.cc,          *)
(* src/main/user_manager.cc and src/main/protocols/protocol.cc.            *)
(*                                                                         *)
(* Execution contexts: "main" is the task that runs Application::Start     *)
(* and then MainEventLoop; "timer" is the esp_timer task that runs the     *)
(* timer callbacks; "net" is the transport's receive task; "worker" is a   *)
(* detached tool-call thread; "caller" is whoever calls the public         *)
(* methods ToggleChatState / StartListening / ... (buttons, board code).   *)
(***************************************************************************)
EXTENDS Integers, Sequences, FiniteSets, TLC

\* ------------------------------------------------------------ bounds
\* Closures that producers outside the main task may have pending at once.
MaxQueue == 2
\* Cap of the modelled clock tick counter (clock_ticks_ grows without bound).
MaxTicks == 1
\* External events (calls, messages, clock ticks) in one run.
MaxEvents == 2
\* Seconds of a version-check wait that are taken one by one.
MaxPolls == 1
\* Tools the board registers before Start.
MaxBoardTools == 1
\* tool_call threads alive at once.
MaxThreads == 2

\* ------------------------------------------------------------ constants
MAX_UPLOAD_COUNT == 10

\* Build option: the AFE wake word engine keeps detecting while the device speaks.
CONFIG_USE_AFE_WAKE_WORD == TRUE

DeviceStates ==
    {"Unknown", "Starting", "WifiConfiguring", "Idle", "Connecting", "Listening",
     "Speaking", "Upgrading", "Activating", "AudioTesting", "FatalError", "Login"}

AecModes == {"kAecOff", "kAecOnDeviceSide", "kAecOnServerSide"}

\* AbortReason, the argument of AbortSpeaking.
AbortReasons == {"kAbortReasonNone", "kAbortReasonWakeWordDetected"}

\* MAIN_EVENT_* bits the loop waits for (application.h:21-25).
WaitBits == {"SCHEDULE", "SEND_AUDIO", "WAKE_WORD_DETECTED", "VAD_CHANGE", "ERROR"}

VARIABLES
    device_state_,      \* Application::device_state_
    listening_mode_,    \* Application::listening_mode_
    aec_mode_,          \* Application::aec_mode_
    clock_ticks_,       \* Application::clock_ticks_
    protocol_,          \* TRUE once protocol_ has been created in Start
    proto_state,        \* WebsocketProtocol::device_state_, set by protocol_->SetDeviceState
    channel,            \* protocol_->IsAudioChannelOpened()
    logged_in,          \* UserManager::is_logged_in_
    date_expired,       \* stored login_date differs from the current date
    is_device_activated_,
    voice_processing,   \* audio_service_: voice processing enabled (audio processor running)
    wake_word_detection,\* audio_service_: wake word detection enabled
    event_bits,         \* bits set in event_group_
    main_tasks_,        \* Application::main_tasks_
    tts_session_active_,
    aborted_,
    pending_inspection_after_login_,
    login_tts_completed_,
    camera_preview_timer_,
    camera_upload_timer_,
    inspection_timer_,
    auto_logout_timer_,
    daily_check_timer_,
    camera_upload_count_,
    last_error_message_,
    pc,                 \* position of the main task
    bits,               \* the bits xEventGroupWaitBits returned to this iteration
    tasks,              \* the batch moved out of main_tasks_, not yet run
    events,             \* external events (calls, messages, clock ticks) the run may still take
    retry_count,        \* CheckNewVersion: retry_count
    retry_delay,        \* CheckNewVersion: retry_delay, in seconds
    cnv_i,              \* CheckNewVersion: the wait loop's counter i, in seconds
    act_i,              \* the activation closure's loop counter i
    wpc,                \* position of the detached tool-call worker
    tools_,             \* McpServer::tools_, the registry
    tool_threads,       \* the detached tool_call threads that have not finished
    schedule_calls,     \* closures of the Schedule calls that are between their two steps
    log                 \* what the last step did (context, calls, messages sent)

appvars ==
    <<device_state_, listening_mode_, aec_mode_, clock_ticks_, protocol_, proto_state,
      channel, logged_in, date_expired, is_device_activated_, voice_processing,
      wake_word_detection, event_bits, main_tasks_, tts_session_active_, aborted_,
      pending_inspection_after_login_, login_tts_completed_, camera_preview_timer_,
      camera_upload_timer_, inspection_timer_, auto_logout_timer_, daily_check_timer_,
      camera_upload_count_, last_error_message_, log>>

\* The state of the McpServer singleton.
mcpvars == <<tools_, tool_threads>>

vars ==
    <<appvars, pc, bits, tasks, retry_count, retry_delay, cnv_i, act_i, wpc, events, mcpvars,
      schedule_calls>>

\* ------------------------------------------------------------ the step log
EmptyLog ==
    [ctx |-> "none", op |-> "none", calls |-> <<>>, entered |-> <<>>, sent |-> <<>>,
     modes |-> <<>>, opens |-> 0, closes |-> 0, inspections |-> 0, direct |-> FALSE,
     alert |-> "none", check |-> "none", waited |-> 0, fault |-> FALSE,
     from |-> "none", chan |-> <<>>, replies |-> <<>>, invoked |-> <<>>,
     started |-> 0, req |-> "none", tool |-> "none"]

\* The application's fields as one record, so that a handler's nested calls
\* can be composed in the order the code makes them.
Cur ==
    [device_state_ |-> device_state_, listening_mode_ |-> listening_mode_,
     aec_mode_ |-> aec_mode_, clock_ticks_ |-> clock_ticks_, protocol_ |-> protocol_,
     proto_state |-> proto_state, channel |-> channel, logged_in |-> logged_in,
     date_expired |-> date_expired, is_device_activated_ |-> is_device_activated_,
     voice_processing |-> voice_processing, wake_word_detection |-> wake_word_detection,
     event_bits |-> event_bits, main_tasks_ |-> main_tasks_,
     tts_session_active_ |-> tts_session_active_, aborted_ |-> aborted_,
     pending_inspection_after_login_ |-> pending_inspection_after_login_,
     login_tts_completed_ |-> login_tts_completed_,
     camera_preview_timer_ |-> camera_preview_timer_,
     camera_upload_timer_ |-> camera_upload_timer_,
     inspection_timer_ |-> inspection_timer_, auto_logout_timer_ |-> auto_logout_timer_,
     daily_check_timer_ |-> daily_check_timer_,
     camera_upload_count_ |-> camera_upload_count_,
     last_error_message_ |-> last_error_message_, log |-> log]

BecomeApp(s) ==
    /\ device_state_' = s.device_state_
    /\ listening_mode_' = s.listening_mode_
    /\ aec_mode_' = s.aec_mode_
    /\ clock_ticks_' = s.clock_ticks_
    /\ protocol_' = s.protocol_
    /\ proto_state' = s.proto_state
    /\ channel' = s.channel
    /\ logged_in' = s.logged_in
    /\ date_expired' = s.date_expired
    /\ is_device_activated_' = s.is_device_activated_
    /\ voice_processing' = s.voice_processing
    /\ wake_word_detection' = s.wake_word_detection
    /\ event_bits' = s.event_bits
    /\ main_tasks_' = s.main_tasks_
    /\ tts_session_active_' = s.tts_session_active_
    /\ aborted_' = s.aborted_
    /\ pending_inspection_after_login_' = s.pending_inspection_after_login_
    /\ login_tts_completed_' = s.login_tts_completed_
    /\ camera_preview_timer_' = s.camera_preview_timer_
    /\ camera_upload_timer_' = s.camera_upload_timer_
    /\ inspection_timer_' = s.inspection_timer_
    /\ auto_logout_timer_' = s.auto_logout_timer_
    /\ daily_check_timer_' = s.daily_check_timer_
    /\ camera_upload_count_' = s.camera_upload_count_
    /\ last_error_message_' = s.last_error_message_
    /\ log' = s.log

\* A step of the application that does not touch the McpServer and is not one
\* half of a Schedule call.
Become(s) == BecomeApp(s) /\ UNCHANGED mcpvars /\ UNCHANGED schedule_calls

\* The record a step of context ctx running op starts from.
Begin(ctx, op) == [Cur EXCEPT !.log = [EmptyLog EXCEPT !.ctx = ctx, !.op = op]]

\* The fields of the program, without the log of the step.
Core(s) == [s EXCEPT !.log = EmptyLog]

\* ------------------------------------------------------------ scheduler
\* Schedule with push_front in place of push_back.
SchedulePrepend(s, c) ==
    [s EXCEPT !.main_tasks_ = <<c>> \o @, !.event_bits = @ \cup {"SCHEDULE"}]

\* Application::Schedule (application.cc:733-740): push_back under the mutex, then
\* set MAIN_EVENT_SCHEDULE.
Schedule(s, c) ==
    [s EXCEPT !.main_tasks_ = Append(@, c), !.event_bits = @ \cup {"SCHEDULE"}]

\* A Schedule that would signal before it appends.
ScheduleOrderSignalFirst == <<"SetBits", "push_back">>

\* The two steps of Schedule in program order: the push_back under mutex_
\* (application.cc:735-738), then xEventGroupSetBits (739). Another task can run
\* between them.
ScheduleOrder == <<"push_back", "SetBits">>

ScheduleStep(s, c, what) ==
    IF what = "push_back" THEN [s EXCEPT !.main_tasks_ = Append(@, c)]
    ELSE [s EXCEPT !.event_bits = @ \cup {"SCHEDULE"}]

\* ------------------------------------------------------------ protocol
SendText(s, m) == [s EXCEPT !.log.sent = Append(@, m)]

\* Protocol::SetError: the error callback stores the message and sets MAIN_EVENT_ERROR.
SetError(s, m) ==
    [s EXCEPT !.last_error_message_ = m, !.event_bits = @ \cup {"ERROR"}]

\* An OpenAudioChannel that would fail without reporting an error.
OpenAudioChannelFailsSilently(s, ok) ==
    LET t == [s EXCEPT !.log.opens = @ + 1,
                       !.log.chan = Append(@, IF ok THEN "open_ok" ELSE "open_failed")]
    IN  [t EXCEPT !.channel = ok]

\* OpenAudioChannel: ok is whether the transport came up and the server said hello.
OpenAudioChannel(s, ok) ==
    LET t == [s EXCEPT !.log.opens = @ + 1,
                       !.log.chan = Append(@, IF ok THEN "open_ok" ELSE "open_failed")]
    IN  IF ok THEN [t EXCEPT !.channel = TRUE]
        ELSE SetError([t EXCEPT !.channel = FALSE], "open_failed")

\* A close that leaves the flag as it was.
CloseAudioChannelKeepsFlag(s) ==
    [s EXCEPT !.log.closes = @ + 1, !.log.chan = Append(@, "close")]

CloseAudioChannel(s) ==
    [s EXCEPT !.channel = FALSE, !.log.closes = @ + 1, !.log.chan = Append(@, "close")]

SendAbortSpeaking(s, reason) ==
    SendText(s, IF reason = "kAbortReasonWakeWordDetected" THEN "abort_wake_word_detected"
                ELSE "abort")

SendStartListening(s, mode) ==
    SendText(s, IF mode = "Realtime" THEN "listen_start_realtime"
                ELSE IF mode = "AutoStop" THEN "listen_start_auto"
                ELSE "listen_start_manual")

SendStopListening(s) == SendText(s, "listen_stop")

SendWakeWordDetected(s) == SendText(s, "listen_detect")

\* ------------------------------------------------------------ timers
StopCameraPreview(s) == [s EXCEPT !.camera_preview_timer_ = FALSE]

StopCameraUpload(s) ==
    IF s.camera_upload_timer_
    THEN [s EXCEPT !.camera_upload_timer_ = FALSE, !.camera_upload_count_ = 0]
    ELSE s

StartCameraPreview(s) == [s EXCEPT !.camera_preview_timer_ = TRUE]

StartCameraUpload(s) ==
    [s EXCEPT !.camera_upload_count_ = 0, !.camera_upload_timer_ = TRUE]

StopInspectionTimer(s) == [s EXCEPT !.inspection_timer_ = FALSE]

StopAutoLogoutTimer(s) == [s EXCEPT !.auto_logout_timer_ = FALSE]

StopDailyCheckTimer(s) == [s EXCEPT !.daily_check_timer_ = FALSE]

StartDailyCheckTimer(s) == [s EXCEPT !.daily_check_timer_ = TRUE]

StartInspectionTimer(s) == [s EXCEPT !.inspection_timer_ = TRUE]

StartAutoLogoutTimer(s) == [s EXCEPT !.auto_logout_timer_ = TRUE]

ClearInspectionFlags(s) ==
    [s EXCEPT !.pending_inspection_after_login_ = FALSE, !.login_tts_completed_ = FALSE]

\* SendInspectionRequest: an HTTP request outside the session; it ends by
\* stopping the inspection timer.
SendInspectionRequest(s) == StopInspectionTimer([s EXCEPT !.log.inspections = @ + 1])

\* ------------------------------------------------------------ state machine
\* Entry side effects of SetDeviceState's switch (application.cc:934-1064).
ReconnectWanted(s) == s.logged_in /\ s.protocol_ /\ ~s.channel

\* The Idle entry without the two audio_service_ calls of application.cc:943-944.
EnterIdleKeepAudio(s) ==
    LET a == StopCameraUpload(StopCameraPreview(s))
    IN  IF ReconnectWanted(a) THEN Schedule(a, "reconnect") ELSE a

EnterIdle(s) ==
    LET a == StopCameraUpload(StopCameraPreview(s))
        b == [a EXCEPT !.voice_processing = FALSE, !.wake_word_detection = TRUE]
    IN  IF ReconnectWanted(b) THEN Schedule(b, "reconnect") ELSE b

EnterConnecting(s) == StopCameraUpload(StopCameraPreview(s))

\* A Listening entry that would fire the notification as soon as one is pending.
EnterListeningWithoutTtsStop(s) ==
    LET a == StopCameraUpload(StopCameraPreview(s))
        b == IF a.pending_inspection_after_login_
             THEN SendInspectionRequest(ClearInspectionFlags(a))
             ELSE a
    IN  IF ~b.voice_processing
        THEN [SendStartListening(b, b.listening_mode_)
                EXCEPT !.voice_processing = TRUE, !.wake_word_detection = FALSE]
        ELSE b

EnterListening(s) ==
    LET a == StopCameraUpload(StopCameraPreview(s))
        b == IF a.pending_inspection_after_login_ /\ a.login_tts_completed_
             THEN SendInspectionRequest(ClearInspectionFlags(a))
             ELSE a
    IN  IF ~b.voice_processing
        THEN [SendStartListening(b, b.listening_mode_)
                EXCEPT !.voice_processing = TRUE, !.wake_word_detection = FALSE]
        ELSE b

EnterSpeaking(s) ==
    LET a == StopCameraUpload(StopCameraPreview(s))
    IN  IF a.listening_mode_ # "Realtime"
        THEN [a EXCEPT !.voice_processing = FALSE,
                       !.wake_word_detection = CONFIG_USE_AFE_WAKE_WORD]
        ELSE a

EnterLogin(s) ==
    StartCameraUpload(StartCameraPreview(
        [s EXCEPT !.voice_processing = FALSE, !.wake_word_detection = TRUE]))

EntryEffects(s, state) ==
    CASE state \in {"Unknown", "Idle"} -> EnterIdle(s)
      [] state = "Connecting" -> EnterConnecting(s)
      [] state = "Listening" -> EnterListening(s)
      [] state = "Speaking" -> EnterSpeaking(s)
      [] state = "Login" -> EnterLogin(s)
      [] OTHER -> s

\* SetDeviceState without the early return of application.cc:911-914.
SetDeviceStateNoGuard(s, state) ==
    EntryEffects(
        [s EXCEPT !.log.calls = Append(@, state),
                  !.clock_ticks_ = 0,
                  !.device_state_ = state,
                  !.proto_state = IF s.protocol_ THEN state ELSE @,
                  !.log.entered = Append(@, state),
                  !.log.from = IF @ = "none" THEN s.device_state_ ELSE @],
        state)

\* Application::SetDeviceState (application.cc:909-1065). log.from keeps the state
\* the step's first transition leaves.
SetDeviceState(s, state) ==
    LET c == [s EXCEPT !.log.calls = Append(@, state)]
    IN  IF c.device_state_ = state THEN c
        ELSE EntryEffects(
                 [c EXCEPT !.clock_ticks_ = 0,
                           !.device_state_ = state,
                           !.proto_state = IF c.protocol_ THEN state ELSE @,
                           !.log.entered = Append(@, state),
                           !.log.from = IF @ = "none" THEN c.device_state_ ELSE @],
                 state)

\* Application::SetListeningMode
SetListeningMode(s, mode) ==
    SetDeviceState([s EXCEPT !.listening_mode_ = mode,
                             !.log.modes = Append(@, "listening_mode_")], "Listening")

\* An AbortSpeaking that would itself take the device to Idle.
AbortSpeakingToIdle(s, reason) ==
    IF s.protocol_
    THEN SetDeviceState(SendAbortSpeaking([s EXCEPT !.aborted_ = TRUE], reason), "Idle")
    ELSE [s EXCEPT !.aborted_ = TRUE, !.log.fault = TRUE]

\* Application::AbortSpeaking (application.cc:896-901). protocol_ is dereferenced
\* without a test: while Start has not created it yet the call is a null pointer
\* dereference, recorded in log.fault.
AbortSpeaking(s, reason) ==
    IF s.protocol_ THEN SendAbortSpeaking([s EXCEPT !.aborted_ = TRUE], reason)
    ELSE [s EXCEPT !.aborted_ = TRUE, !.log.fault = TRUE]

\* Application::Alert: shows the message on the display.
Alert(s, message) == [s EXCEPT !.log.alert = message]

AutoOrRealtime(s) == IF s.aec_mode_ = "kAecOff" THEN "AutoStop" ELSE "Realtime"

\* ------------------------------------------------------------ closures
\* The closure ToggleChatState schedules in Idle (application.cc:307-324); mode is
\* the listening mode it asks for (StartListening's closure, 364-381, asks ManualStop).
OpenForChat(s, ok, mode) ==
    LET a == IF s.channel THEN CloseAudioChannel(s) ELSE s
        b == OpenAudioChannel(SetDeviceState(a, "Connecting"), ok)
    IN  IF ok THEN SetListeningMode(b, mode) ELSE b

\* A 'tts stop' closure that would hand the turn back to the user in every mode.
TtsStopAlwaysListens(s) ==
    LET a == [s EXCEPT !.tts_session_active_ = FALSE]
        b == IF a.pending_inspection_after_login_ /\ ~a.login_tts_completed_
             THEN [a EXCEPT !.login_tts_completed_ = TRUE]
             ELSE a
    IN  IF b.device_state_ = "Speaking" THEN SetDeviceState(b, "Listening") ELSE b

\* The 'tts stop' closure (application.cc:562-585).
TtsStop(s) ==
    LET a == [s EXCEPT !.tts_session_active_ = FALSE]
        b == IF a.pending_inspection_after_login_ /\ ~a.login_tts_completed_
             THEN [a EXCEPT !.login_tts_completed_ = TRUE]
             ELSE a
    IN  IF b.device_state_ = "Speaking"
        THEN IF b.listening_mode_ = "ManualStop"
             THEN SetDeviceState(b, "Idle")
             ELSE SetDeviceState(b, "Listening")
        ELSE b

\* A 'tts start' closure that would also switch to Speaking.
TtsStartSpeaks(s) ==
    SetDeviceState([s EXCEPT !.aborted_ = FALSE, !.tts_session_active_ = TRUE], "Speaking")

\* The 'tts start' closure (application.cc:550-557).
TtsStart(s) == [s EXCEPT !.aborted_ = FALSE, !.tts_session_active_ = TRUE]

\* The 'tts sentence_start' closure (application.cc:594-602).
TtsSentenceStart(s) ==
    IF s.tts_session_active_ /\ s.device_state_ \in {"Idle", "Listening"}
    THEN SetDeviceState(s, "Speaking")
    ELSE s

\* A closure that would only switch the device-side AEC.
AecClosureKeepsChannel(s) == s

\* The closure of SetAecMode (application.cc:1142-1167).
AecClosure(s) == IF s.protocol_ /\ s.channel THEN CloseAudioChannel(s) ELSE s

\* Closures that run in one piece. ok is the result of the OpenAudioChannel call
\* the closure may make.
SimpleTasks ==
    {"toggle_open", "toggle_abort", "toggle_stop", "start_open", "start_abort",
     "stop_listen", "chan_closed", "tts_start", "tts_stop", "tts_sentence", "display",
     "wake_invoke", "invoke_close", "mcp_send", "aec", "user"}

\* Closures with a vTaskDelay inside, run in several steps.
DelayTasks == {"reconnect", "delay_idle", "activate"}

\* Closures that end the main task: Reboot, and a closure that throws.
FinalTasks == {"reboot", "user_throw"}

Tasks == SimpleTasks \cup DelayTasks \cup FinalTasks

RunTask(s, c, ok) ==
    CASE c = "toggle_open" -> OpenForChat(s, ok, AutoOrRealtime(s))
      [] c = "toggle_abort" -> AbortSpeaking(s, "kAbortReasonNone")
      [] c = "toggle_stop" -> SetDeviceState(SendStopListening(s), "Idle")
      [] c = "start_open" -> OpenForChat(s, ok, "ManualStop")
      [] c = "start_abort" ->
            SetListeningMode(AbortSpeaking(s, "kAbortReasonNone"), "ManualStop")
      [] c = "stop_listen" ->
            IF s.device_state_ = "Listening"
            THEN SetDeviceState(SendStopListening(s), "Idle")
            ELSE s
      [] c = "chan_closed" -> SetDeviceState(s, "Idle")
      [] c = "tts_start" -> TtsStart(s)
      [] c = "tts_stop" -> TtsStop(s)
      [] c = "tts_sentence" -> TtsSentenceStart(s)
      [] c = "wake_invoke" -> IF s.protocol_ THEN SendWakeWordDetected(s) ELSE s
      [] c = "invoke_close" -> IF s.protocol_ THEN CloseAudioChannel(s) ELSE s
      [] c = "mcp_send" -> IF s.protocol_ THEN SendText(s, "mcp") ELSE s
      [] c = "aec" -> AecClosure(s)
      [] OTHER -> s

\* The wake word message is sent only in builds with an AFE or custom wake word
\* engine (application.cc:834-848, 1472-1486).
WakeWordSend(s) == IF CONFIG_USE_AFE_WAKE_WORD THEN SendWakeWordDetected(s) ELSE s

\* Application::TriggerWakeWordFlow (application.cc:1443-1487); protocol_ is set
\* whenever it is reached.
TriggerWakeWordFlow(s, ok) ==
    IF ~s.protocol_ THEN SetDeviceState(s, "Idle")
    ELSE IF ~s.channel
         THEN LET a == OpenAudioChannel(SetDeviceState(s, "Connecting"), ok)
              IN  IF ok
                  THEN SetListeningMode(WakeWordSend(a), AutoOrRealtime(a))
                  ELSE [SetDeviceState(a, "Idle") EXCEPT !.wake_word_detection = TRUE]
         ELSE SetListeningMode(WakeWordSend(s), AutoOrRealtime(s))

\* Application::OnWakeWordDetected (application.cc:797-858).
OnWakeWordDetected(s, ok) ==
    IF ~s.protocol_ THEN s
    ELSE IF s.device_state_ = "Idle"
    THEN IF ~s.logged_in
         THEN SetDeviceState(IF s.channel THEN CloseAudioChannel(s) ELSE s, "Login")
         ELSE IF ~s.channel
              THEN LET a == OpenAudioChannel(SetDeviceState(s, "Connecting"), ok)
                   IN  IF ok
                       THEN SetListeningMode(WakeWordSend(a), AutoOrRealtime(a))
                       ELSE [a EXCEPT !.wake_word_detection = TRUE]
              ELSE SetListeningMode(WakeWordSend(s), AutoOrRealtime(s))
    ELSE IF s.device_state_ = "Speaking"
    THEN AbortSpeaking(s, "kAbortReasonWakeWordDetected")
    ELSE IF s.device_state_ = "Activating"
    THEN SetDeviceState(s, "Idle")
    ELSE s

\* ------------------------------------------------------------ user manager
\* UserManager::ClearUserInfo (user_manager.cc:90-110).
ClearUserInfo(s) == [s EXCEPT !.logged_in = FALSE, !.date_expired = FALSE]

\* UserManager::LoadUserInfo (user_manager.cc:42-88): a stored login of another
\* day is cleared.
LoadUserInfo(s) == IF s.logged_in /\ s.date_expired THEN ClearUserInfo(s) ELSE s

\* ------------------------------------------------------------ McpServer: registry
\* A registered tool: its name, the length in bytes of its descriptor
\* (McpTool::to_json()) and its declared properties in declaration order. A
\* property has a name, a type, may have a default value and, for an integer,
\* may have a range.
NoProps == <<>>

Prop(name, type, has_default, ranged) ==
    [name |-> name, type |-> type, has_default |-> has_default, ranged |-> ranged]

Tool(name, size, props) == [name |-> name, size |-> size, props |-> props]

\* What the board offers (mcp_server.cc:211, 223-224, 234-235).
BoardHasBacklight == TRUE
BoardHasTheme == TRUE
BoardHasCamera == TRUE

\* The tools AddCommonTools registers, in its order (mcp_server.cc:44-253). A
\* descriptor's length is that of the name and the description in the source
\* plus the braces, keys and property schema of the JSON object around them.
CommonTools ==
    <<Tool("self.get_device_status", 457, NoProps),
      Tool("self.user.account_logout", 872, NoProps),
      Tool("self.user.get_schedules", 428, NoProps),
      Tool("self.audio_speaker.set_volume", 320,
           <<Prop("volume", "integer", FALSE, TRUE)>>)>>
    \o (IF BoardHasBacklight
        THEN <<Tool("self.screen.set_brightness", 210,
                    <<Prop("brightness", "integer", FALSE, TRUE)>>)>>
        ELSE <<>>)
    \o (IF BoardHasTheme
        THEN <<Tool("self.screen.set_theme", 200, <<Prop("theme", "string", FALSE, FALSE)>>)>>
        ELSE <<>>)
    \o (IF BoardHasCamera
        THEN <<Tool("self.camera.take_photo", 350,
                    <<Prop("question", "string", FALSE, FALSE)>>)>>
        ELSE <<>>)

HasName(reg, name) == \E i \in 1..Len(reg) : reg[i].name = name

\* McpServer::AddTool (mcp_server.cc:259-270): a tool whose name is already in
\* tools_ is not added.
AddTool(reg, tool) == IF HasName(reg, tool.name) THEN reg ELSE Append(reg, tool)

RECURSIVE AddAll(_, _, _)
AddAll(reg, list, i) ==
    IF i > Len(list) THEN reg ELSE AddAll(AddTool(reg, list[i]), list, i + 1)

\* McpServer::AddCommonTools (mcp_server.cc:36-257): tools_ is moved aside, the
\* common tools are added to the emptied list with AddTool, and the tools that
\* were moved aside are inserted at the end as they are.
AddCommonTools(reg) == AddAll(<<>>, CommonTools, 1) \o reg

\* ------------------------------------------------------------ McpServer: requests
\* Application::SendMcpMessage (application.cc:1126-1136): the payload is handed
\* to a closure that sends it through the protocol.
SendMcpMessage(s, payload) ==
    Schedule([s EXCEPT !.log.replies = Append(@, payload)], "mcp_send")

\* The payload of a reply: a result with the listed tools and the next cursor, a
\* result with another value, or an error with its message and the name the
\* message ends with.
Payload(id, kind, tools, next, message, arg) ==
    [id |-> id, kind |-> kind, tools |-> tools, nextCursor |-> next,
     message |-> message, arg |-> arg]

\* McpServer::ReplyResult (mcp_server.cc:417-424).
ReplyResult(s, id, tools, next) ==
    SendMcpMessage(s, Payload(id, "result", tools, next, "", ""))

\* McpServer::ReplyError (mcp_server.cc:426-434).
ReplyError(s, id, message, arg) ==
    SendMcpMessage(s, Payload(id, "error", <<>>, "", message, arg))

max_payload_size == 8000

\* The length of the opening of the page, {"tools":[ (mcp_server.cc:439).
PageOpening == 10

\* What the test of mcp_server.cc:463 adds to the two lengths.
PageReserve == 30

\* The size test before a tool is added to the page (mcp_server.cc:462-468); len
\* is json.length() and the tool's text is its descriptor and a comma.
ToolFits(len, tool) == len + (tool.size + 1) + PageReserve <= max_payload_size

\* The while loop of GetToolsList (mcp_server.cc:445-472) from position i on:
\* the tools added to the page and the tool the loop stopped at (0: none).
RECURSIVE ListLoop(_, _, _, _, _, _)
ListLoop(reg, cursor, i, found, len, page) ==
    IF i > Len(reg) THEN [page |-> page, stop |-> 0]
    ELSE IF ~found /\ reg[i].name # cursor
         THEN ListLoop(reg, cursor, i + 1, FALSE, len, page)
         ELSE IF ~ToolFits(len, reg[i])
              THEN [page |-> page, stop |-> i]
              ELSE ListLoop(reg, cursor, i + 1, TRUE, len + reg[i].size + 1,
                            Append(page, i))

\* The page GetToolsList builds for a cursor: the positions of the tools it
\* holds, next_cursor, and whether the reply is an error.
ToolsPage(reg, cursor) ==
    LET l == ListLoop(reg, cursor, 1, cursor = "", PageOpening, <<>>)
        next == IF l.stop = 0 THEN "" ELSE reg[l.stop].name
    IN  [page |-> l.page, next |-> next, error |-> l.page = <<>> /\ reg # <<>>]

\* McpServer::GetToolsList (mcp_server.cc:436-497).
GetToolsList(s, reg, id, cursor) ==
    LET p == ToolsPage(reg, cursor)
    IN  IF p.error
        THEN ReplyError(s, id, "Failed to add tool because of payload size limit", p.next)
        ELSE ReplyResult(s, id, [k \in 1..Len(p.page) |-> reg[p.page[k]].name], p.next)

\* The values a member of the arguments object can have.
ValueKinds == {"absent", "bool", "number", "number_out_of_range", "string"}

\* cJSON_GetObjectItem on the members of the arguments object.
GetItem(members, name) ==
    IF name \in DOMAIN members THEN members[name] ELSE "absent"

\* The type tests of mcp_server.cc:519-533.
Binds(prop, value) ==
    \/ prop.type = "boolean" /\ value = "bool"
    \/ prop.type = "integer" /\ value \in {"number", "number_out_of_range"}
    \/ prop.type = "string" /\ value = "string"

\* Property::set_value refuses an integer outside the property's range.
SetValueThrows(prop, value) ==
    prop.type = "integer" /\ prop.ranged /\ value = "number_out_of_range"

\* A loop that takes a supplied value of any type for a match.
BindLoopAnyType(props, arguments, i) ==
    LET absent(k) == \/ arguments.kind # "object"
                     \/ GetItem(arguments.members, props[k].name) = "absent"
        missing == {k \in i..Len(props) : ~props[k].has_default /\ absent(k)}
    IN  IF missing = {} THEN [outcome |-> "bound", arg |-> ""]
        ELSE [outcome |-> "missing",
              arg |-> props[CHOOSE k \in missing : \A j \in missing : k <= j].name]

\* The loop over the declared properties (mcp_server.cc:513-542) from property i
\* on: "bound", or the first failure with the argument's name.
RECURSIVE BindLoop(_, _, _)
BindLoop(props, arguments, i) ==
    IF i > Len(props) THEN [outcome |-> "bound", arg |-> ""]
    ELSE LET value == IF arguments.kind # "object" THEN "absent"
                      ELSE GetItem(arguments.members, props[i].name)
             found == Binds(props[i], value)
         IN  IF found /\ SetValueThrows(props[i], value)
             THEN [outcome |-> "exception", arg |-> props[i].name]
             ELSE IF ~props[i].has_default /\ ~found
                  THEN [outcome |-> "missing", arg |-> props[i].name]
                  ELSE BindLoop(props, arguments, i + 1)

\* std::find_if over tools_: the position of the first tool with the name, or 0.
FindTool(reg, name) ==
    IF HasName(reg, name)
    THEN CHOOSE i \in 1..Len(reg) :
             reg[i].name = name /\ \A j \in 1..(i - 1) : reg[j].name # name
    ELSE 0

\* A DoToolCall that calls the tool where it stands and replies its result.
DoToolCallInline(m, reg, id, tool_name, tool_arguments) ==
    LET t == FindTool(reg, tool_name)
    IN  IF t = 0
        THEN [m EXCEPT !.app = ReplyError(@, id, "Unknown tool", tool_name)]
        ELSE LET b == BindLoop(reg[t].props, tool_arguments, 1)
             IN  CASE b.outcome = "missing" ->
                        [m EXCEPT !.app = ReplyError(@, id, "Missing valid argument", b.arg)]
                   [] b.outcome = "exception" ->
                        [m EXCEPT !.app = ReplyError(@, id, "exception", b.arg)]
                   [] OTHER ->
                        [m EXCEPT !.app = ReplyResult([@ EXCEPT !.log.invoked = <<reg[t].name>>],
                                                      id, <<>>, "")]

\* McpServer::DoToolCall (mcp_server.cc:499-573). m holds the application and
\* the tool_call threads; an accepted call starts a detached thread that holds
\* the id and the tool.
DoToolCall(m, reg, id, tool_name, tool_arguments) ==
    LET t == FindTool(reg, tool_name)
    IN  IF t = 0
        THEN [m EXCEPT !.app = ReplyError(@, id, "Unknown tool", tool_name)]
        ELSE LET b == BindLoop(reg[t].props, tool_arguments, 1)
             IN  CASE b.outcome = "missing" ->
                        [m EXCEPT !.app = ReplyError(@, id, "Missing valid argument", b.arg)]
                   [] b.outcome = "exception" ->
                        [m EXCEPT !.app = ReplyError(@, id, "exception", b.arg)]
                   [] OTHER ->
                        [m EXCEPT !.app.log.started = @ + 1,
                                  !.threads = Append(@, [id |-> id, tool |-> t,
                                                         running |-> FALSE])]

\* McpServer::ParseMessage (mcp_server.cc:310-415) on an envelope req: jsonrpc,
\* method, params and stackSize say what the field is, id_kind says whether id is
\* a number and id is then its value, cursor and name are "" and "absent" when
\* the field is not a string, arguments has the kind of the field and, for an
\* object, its members.
ParseMessage(m, reg, req) ==
    IF req.jsonrpc # "2.0" THEN m
    ELSE IF req.method \in {"absent", "not_string"} THEN m
    ELSE IF req.method = "notifications/initialized" THEN m
    ELSE IF req.params = "not_object" THEN m
    ELSE IF req.id_kind # "number" THEN m
    ELSE CASE req.method = "initialize" ->
                [m EXCEPT !.app = ReplyResult(@, req.id, <<>>, "")]
           [] req.method = "tools/list" ->
                [m EXCEPT !.app = GetToolsList(@, reg, req.id,
                                               IF req.params = "absent" THEN ""
                                               ELSE req.cursor)]
           [] req.method = "tools/call" ->
                IF req.params # "object"
                THEN [m EXCEPT !.app = ReplyError(@, req.id, "Missing params", "")]
                ELSE IF req.name = "absent"
                THEN [m EXCEPT !.app = ReplyError(@, req.id, "Missing name", "")]
                ELSE IF req.arguments.kind = "not_object"
                THEN [m EXCEPT !.app = ReplyError(@, req.id, "Invalid arguments", "")]
                ELSE IF req.stackSize = "not_number"
                THEN [m EXCEPT !.app = ReplyError(@, req.id, "Invalid stackSize", "")]
                ELSE DoToolCall(m, reg, req.id, req.name, req.arguments)
           [] OTHER ->
                [m EXCEPT !.app = ReplyError(@, req.id, "Method not implemented", req.method)]

\* ------------------------------------------------------------ Init
\* The state after construction. logged_in, date_expired and is_device_activated_
\* stand for what persistent storage holds until Start loads it: no login, a login
\* of today or of an earlier day, and whether the device was activated.
Constructed ==
    /\ device_state_ = "Unknown"
    /\ listening_mode_ = "AutoStop"
    /\ aec_mode_ = "kAecOff"
    /\ clock_ticks_ = 0
    /\ protocol_ = FALSE
    /\ proto_state = "Unknown"
    /\ channel = FALSE
    /\ voice_processing = FALSE
    /\ wake_word_detection = FALSE
    /\ event_bits = {}
    /\ main_tasks_ = <<>>
    /\ tts_session_active_ = FALSE
    /\ aborted_ = FALSE
    /\ pending_inspection_after_login_ = FALSE
    /\ login_tts_completed_ = FALSE
    /\ camera_preview_timer_ = FALSE
    /\ camera_upload_timer_ = FALSE
    /\ inspection_timer_ = FALSE
    /\ auto_logout_timer_ = FALSE
    /\ daily_check_timer_ = FALSE
    /\ camera_upload_count_ = 0
    /\ last_error_message_ = "none"
    /\ log = EmptyLog
    /\ pc = "start"
    /\ bits = {}
    /\ tasks = <<>>
    /\ retry_count = 0
    /\ retry_delay = 10
    /\ cnv_i = 0
    /\ act_i = 0
    /\ wpc = "none"
    /\ tools_ = <<>>
    /\ tool_threads = <<>>
    /\ schedule_calls = <<>>

Init ==
    /\ Constructed
    /\ logged_in \in BOOLEAN
    /\ date_expired \in {d \in BOOLEAN : d => logged_in}
    /\ is_device_activated_ \in BOOLEAN
    /\ events = MaxEvents

\* ------------------------------------------------------------ main task: Start
\* Application::Start up to the call of CheckNewVersion (application.cc:425-482):
\* LoadUserInfo drops a login of an earlier day, the daily check timer is started
\* for a user who is logged in, and the device state becomes Starting.
StartLoad ==
    /\ pc = "start"
    /\ LET a == LoadUserInfo(Begin("main", "Start"))
           b == IF a.logged_in THEN StartDailyCheckTimer(a) ELSE a
       IN  Become(SetDeviceState(b, "Starting"))
    /\ pc' = "cnv_check"
    /\ UNCHANGED <<bits, tasks, retry_count, retry_delay, cnv_i, act_i, wpc, events>>

\* One pass of CheckNewVersion's loop (application.cc:145-230). check is the
\* result of ota.CheckVersion(); upgrade is "none" when there is no new version,
\* else whether the upgrade succeeds.
MAX_RETRY == 10

CheckNewVersionStep ==
    /\ pc = "cnv_check"
    /\ \E check \in BOOLEAN, upgrade \in {"none", "failed", "done"} :
         LET a == [SetDeviceState(Begin("main", "CheckNewVersion"), "Activating")
                     EXCEPT !.log.check = IF check THEN "ok" ELSE "failed"]
         IN  IF ~check
             THEN /\ upgrade = "none"
                  /\ IF retry_count + 1 >= MAX_RETRY
                     THEN /\ Become(a)
                          /\ pc' = "start_protocol"
                          /\ retry_count' = 0
                          /\ retry_delay' = 10
                     ELSE /\ Become(Alert(a, "check_new_version_failed"))
                          /\ pc' = "cnv_sleep"
                          /\ retry_count' = retry_count + 1
                          /\ UNCHANGED retry_delay
             ELSE /\ retry_count' = 0
                  /\ retry_delay' = 10
                  /\ IF upgrade = "none"
                     THEN /\ Become(a)
                          /\ pc' = "start_protocol"
                     ELSE /\ Become(Alert(SetDeviceState(a, "Upgrading"),
                                          IF upgrade = "failed" THEN "upgrade_failed"
                                          ELSE "upgrading"))
                          /\ pc' = IF upgrade = "failed" THEN "start_protocol" ELSE "rebooted"
    /\ UNCHANGED <<bits, tasks, cnv_i, act_i, wpc, events>>

\* A wait whose delay stays the same after each retry.
NextRetryDelayFixed(d) == d

\* retry_delay *= 2 (application.cc:171).
NextRetryDelay(d) == d * 2

\* A poll that never ends the wait early.
PollNeverBreaks(state) == FALSE

\* The test after each vTaskDelay(1000) of the wait (application.cc:166-169).
PollBreaks(state) == state = "Idle"

\* One pass of the wait loop (application.cc:163-170): a second of sleep, then the
\* poll of device_state_. The wait ends when the poll finds Idle or when
\* retry_delay seconds have passed. The first MaxPolls seconds are taken one by one.
CheckNewVersionPoll ==
    /\ pc = "cnv_sleep"
    /\ PollBreaks(device_state_) \/ cnv_i < MaxPolls
    /\ IF PollBreaks(device_state_) \/ cnv_i + 1 >= retry_delay
       THEN /\ Become([Begin("main", "CheckNewVersionPoll") EXCEPT !.log.waited = cnv_i + 1])
            /\ retry_delay' = NextRetryDelay(retry_delay)
            /\ cnv_i' = 0
            /\ pc' = "cnv_check"
       ELSE /\ Become(Begin("main", "CheckNewVersionPoll"))
            /\ cnv_i' = cnv_i + 1
            /\ UNCHANGED <<retry_delay, pc>>
    /\ UNCHANGED <<bits, tasks, retry_count, act_i, wpc, events>>

\* The remaining passes of the wait loop when nothing else runs in between: every
\* poll finds the state the first one finds, so the wait lasts retry_delay seconds.
CheckNewVersionSleepRest ==
    /\ pc = "cnv_sleep"
    /\ ~PollBreaks(device_state_)
    /\ Become([Begin("main", "CheckNewVersionSleepRest") EXCEPT !.log.waited = retry_delay])
    /\ retry_delay' = NextRetryDelay(retry_delay)
    /\ cnv_i' = 0
    /\ pc' = "cnv_check"
    /\ UNCHANGED <<bits, tasks, retry_count, act_i, wpc, events>>

\* Start without its SetDeviceState(kDeviceStateIdle).
StartProtocolKeepsState ==
    /\ pc = "start_protocol"
    /\ BecomeApp([Begin("main", "StartProtocol") EXCEPT !.protocol_ = TRUE])
    /\ tools_' = AddCommonTools(tools_)
    /\ UNCHANGED <<tool_threads, schedule_calls>>
    /\ pc' = "wait"
    /\ UNCHANGED <<bits, tasks, retry_count, retry_delay, cnv_i, act_i, wpc, events>>

\* The rest of Start (application.cc:484-713): the common tools are added to the
\* McpServer, the protocol is created, the callbacks are registered and the device
\* goes Idle.
StartProtocol ==
    /\ pc = "start_protocol"
    /\ BecomeApp(SetDeviceState([Begin("main", "StartProtocol") EXCEPT !.protocol_ = TRUE],
                                "Idle"))
    /\ tools_' = AddCommonTools(tools_)
    /\ UNCHANGED <<tool_threads, schedule_calls>>
    /\ pc' = "wait"
    /\ UNCHANGED <<bits, tasks, retry_count, retry_delay, cnv_i, act_i, wpc, events>>

\* ------------------------------------------------------------ main task: MainEventLoop
\* The categories in the order the loop body tests them (application.cc:753-793).
StageOrder == <<"ERROR", "SEND_AUDIO", "WAKE_WORD_DETECTED", "VAD_CHANGE", "SCHEDULE">>

StageIndex(b) == CHOOSE i \in 1..Len(StageOrder) : StageOrder[i] = b

\* The categories taken from the last to the first.
NextStageLast(i, b) ==
    LET later == {j \in (i + 1)..Len(StageOrder) : StageOrder[j] \in b}
    IN  IF later = {} THEN "wait"
        ELSE StageOrder[CHOOSE j \in later : \A k \in later : j >= k]

\* The first category after position i whose bit this iteration holds, or "wait".
NextStage(i, b) ==
    LET later == {j \in (i + 1)..Len(StageOrder) : StageOrder[j] \in b}
    IN  IF later = {} THEN "wait"
        ELSE StageOrder[CHOOSE j \in later : \A k \in later : j <= k]

\* bits is a local of the loop body: once the last category the iteration holds
\* has been reached nothing reads it again.
LatchedAfter(stage, b) == IF NextStage(StageIndex(stage), b) = "wait" THEN {} ELSE b

\* xEventGroupWaitBits(..., pdTRUE, pdFALSE, portMAX_DELAY): returns once a waited
\* bit is set, and clears the waited bits on exit (application.cc:752).
LoopWake ==
    /\ pc = "wait"
    /\ event_bits \cap WaitBits # {}
    /\ bits' = event_bits \cap WaitBits
    /\ Become([Begin("main", "WaitBits") EXCEPT !.event_bits = @ \ WaitBits])
    /\ pc' = NextStage(0, event_bits \cap WaitBits)
    /\ UNCHANGED <<tasks, retry_count, retry_delay, cnv_i, act_i, wpc, events>>

\* An error stage that would only show the alert.
LoopErrorKeepsState ==
    /\ pc = "ERROR"
    /\ Become(Alert(Begin("main", "ERROR"), last_error_message_))
    /\ pc' = NextStage(StageIndex("ERROR"), bits)
    /\ bits' = LatchedAfter("ERROR", bits)
    /\ UNCHANGED <<tasks, retry_count, retry_delay, cnv_i, act_i, wpc, events>>

\* MAIN_EVENT_ERROR (application.cc:753-757).
LoopError ==
    /\ pc = "ERROR"
    /\ LET a == SetDeviceState(Begin("main", "ERROR"), "Idle")
       IN  Become(Alert(a, a.last_error_message_))
    /\ pc' = NextStage(StageIndex("ERROR"), bits)
    /\ bits' = LatchedAfter("ERROR", bits)
    /\ UNCHANGED <<tasks, retry_count, retry_delay, cnv_i, act_i, wpc, events>>

\* MAIN_EVENT_SEND_AUDIO (application.cc:759-768): the queued packets are sent.
LoopSendAudio ==
    /\ pc = "SEND_AUDIO"
    /\ Become(Begin("main", "SEND_AUDIO"))
    /\ pc' = NextStage(StageIndex("SEND_AUDIO"), bits)
    /\ bits' = LatchedAfter("SEND_AUDIO", bits)
    /\ UNCHANGED <<tasks, retry_count, retry_delay, cnv_i, act_i, wpc, events>>

\* MAIN_EVENT_WAKE_WORD_DETECTED (application.cc:770-773).
LoopWakeWord ==
    /\ pc = "WAKE_WORD_DETECTED"
    /\ \E ok \in BOOLEAN :
         LET r == OnWakeWordDetected(Begin("main", "WAKE_WORD_DETECTED"), ok)
         IN  /\ (r.log.opens = 0 => ok)
             /\ Become(r)
    /\ pc' = NextStage(StageIndex("WAKE_WORD_DETECTED"), bits)
    /\ bits' = LatchedAfter("WAKE_WORD_DETECTED", bits)
    /\ UNCHANGED <<tasks, retry_count, retry_delay, cnv_i, act_i, wpc, events>>

\* MAIN_EVENT_VAD_CHANGE (application.cc:775-782): only the LED is updated.
LoopVadChange ==
    /\ pc = "VAD_CHANGE"
    /\ Become(Begin("main", "VAD_CHANGE"))
    /\ pc' = NextStage(StageIndex("VAD_CHANGE"), bits)
    /\ bits' = LatchedAfter("VAD_CHANGE", bits)
    /\ UNCHANGED <<tasks, retry_count, retry_delay, cnv_i, act_i, wpc, events>>

\* MAIN_EVENT_SCHEDULE (application.cc:784-788): the whole queue is moved out.
LoopTakeTasks ==
    /\ pc = "SCHEDULE"
    /\ tasks' = main_tasks_
    /\ Become([Begin("main", "SCHEDULE") EXCEPT !.main_tasks_ = <<>>])
    /\ pc' = "drain"
    /\ bits' = {}
    /\ UNCHANGED <<retry_count, retry_delay, cnv_i, act_i, wpc, events>>

\* for (auto &task : tasks) task();  (application.cc:789-792), one closure per step.
LoopRunTask ==
    /\ pc = "drain"
    /\ tasks # <<>>
    /\ Head(tasks) \in SimpleTasks
    /\ \E ok \in BOOLEAN :
         LET r == RunTask(Begin("main", Head(tasks)), Head(tasks), ok)
         IN  /\ (r.log.opens = 0 => ok)
             /\ Become(r)
    /\ tasks' = Tail(tasks)
    /\ UNCHANGED <<pc, bits, retry_count, retry_delay, cnv_i, act_i, wpc, events>>

\* A closure that does not return: Reboot restarts the chip; an exception leaves
\* the for loop, MainEventLoop and Start, which have no handler, and ends the task.
LoopRunFinal ==
    /\ pc = "drain"
    /\ tasks # <<>>
    /\ Head(tasks) \in FinalTasks
    /\ Become(Begin("main", Head(tasks)))
    /\ pc' = IF Head(tasks) = "reboot" THEN "rebooted" ELSE "crashed"
    /\ tasks' = Tail(tasks)
    /\ UNCHANGED <<bits, retry_count, retry_delay, cnv_i, act_i, wpc, events>>

\* A loop that would take the queue again before it waits.
LoopBatchDoneRedrain ==
    /\ pc = "drain"
    /\ tasks = <<>>
    /\ tasks' = main_tasks_
    /\ Become([Begin("main", "BatchDone") EXCEPT !.main_tasks_ = <<>>])
    /\ pc' = IF main_tasks_ = <<>> THEN "wait" ELSE "drain"
    /\ UNCHANGED <<bits, retry_count, retry_delay, cnv_i, act_i, wpc, events>>

\* The batch is done: back to xEventGroupWaitBits.
LoopBatchDone ==
    /\ pc = "drain"
    /\ tasks = <<>>
    /\ Become(Begin("main", "BatchDone"))
    /\ pc' = "wait"
    /\ UNCHANGED <<bits, tasks, retry_count, retry_delay, cnv_i, act_i, wpc, events>>

\* The reconnect closure scheduled on entry to Idle (application.cc:951-969):
\* first the vTaskDelay(WEBSOCKET_CONNECT_GAP) ...
ReconnectDelay ==
    /\ pc = "drain"
    /\ tasks # <<>>
    /\ Head(tasks) = "reconnect"
    /\ Become(Begin("main", "reconnect"))
    /\ pc' = "reconnect"
    /\ tasks' = Tail(tasks)
    /\ UNCHANGED <<bits, retry_count, retry_delay, cnv_i, act_i, wpc, events>>

\* A reconnect closure that would not look at the channel before it opens one.
ReconnectBodyNoChannelCheck(s, ok) ==
    IF s.device_state_ = "Idle" /\ s.logged_in
    THEN OpenAudioChannel(s, ok)
    ELSE s

\* ... then the check and the OpenAudioChannel attempt.
ReconnectBody(s, ok) ==
    IF s.device_state_ = "Idle" /\ s.logged_in /\ ~s.channel
    THEN OpenAudioChannel(s, ok)
    ELSE s

ReconnectExpire ==
    /\ pc = "reconnect"
    /\ \E ok \in BOOLEAN :
         LET r == ReconnectBody(Begin("main", "reconnect_expire"), ok)
         IN  /\ (r.log.opens = 0 => ok)
             /\ Become(r)
    /\ pc' = "drain"
    /\ UNCHANGED <<bits, tasks, retry_count, retry_delay, cnv_i, act_i, wpc, events>>

\* The closures of ShowDeviceActivationPrompt's failure branches
\* (application.cc:1990-1995, 2008-2013): a delay, then SetDeviceState(Idle).
DelayIdleDelay ==
    /\ pc = "drain"
    /\ tasks # <<>>
    /\ Head(tasks) = "delay_idle"
    /\ Become(Begin("main", "delay_idle"))
    /\ pc' = "delay_idle"
    /\ tasks' = Tail(tasks)
    /\ UNCHANGED <<bits, retry_count, retry_delay, cnv_i, act_i, wpc, events>>

DelayIdleExpire ==
    /\ pc = "delay_idle"
    /\ Become(SetDeviceState(Begin("main", "delay_idle_expire"), "Idle"))
    /\ pc' = "drain"
    /\ UNCHANGED <<bits, tasks, retry_count, retry_delay, cnv_i, act_i, wpc, events>>

\* The activation closure of ShowDeviceActivationPrompt (application.cc:1932-1978).
ACTIVATE_TRIES == 10

ActivateBegin ==
    /\ pc = "drain"
    /\ tasks # <<>>
    /\ Head(tasks) = "activate"
    /\ Become(Begin("main", "activate"))
    /\ pc' = "activate"
    /\ act_i' = 0
    /\ tasks' = Tail(tasks)
    /\ UNCHANGED <<bits, retry_count, retry_delay, cnv_i, wpc, events>>

\* One ota.Activate() call: on success the activation is saved and the login flow
\* goes on; otherwise the closure sleeps (3 s or 10 s).
ActivateSuccess(s, ok) ==
    TriggerWakeWordFlow(
        StartDailyCheckTimer([s EXCEPT !.is_device_activated_ = TRUE,
                                       !.pending_inspection_after_login_ = TRUE]), ok)

ActivateTry ==
    /\ pc = "activate"
    /\ \E activated \in BOOLEAN, ok \in BOOLEAN :
         IF activated
         THEN LET r == ActivateSuccess(Begin("main", "activate_ok"), ok)
              IN  /\ (r.log.opens = 0 => ok)
                  /\ Become(r)
                  /\ pc' = "drain"
         ELSE /\ ok
              /\ Become(Begin("main", "activate_wait"))
              /\ pc' = "activate_delay"
    /\ UNCHANGED <<bits, tasks, retry_count, retry_delay, cnv_i, act_i, wpc, events>>

\* After the sleep: leave the loop when the device is Idle or the tries are used
\* up, and then SetDeviceState(Idle).
ActivateDelayEnd ==
    /\ pc = "activate_delay"
    /\ IF device_state_ = "Idle" \/ act_i + 1 >= ACTIVATE_TRIES
       THEN /\ Become(SetDeviceState(Begin("main", "activate_end"), "Idle"))
            /\ pc' = "drain"
       ELSE /\ Become(Begin("main", "activate_next"))
            /\ pc' = "activate"
    /\ act_i' = IF device_state_ = "Idle" \/ act_i + 1 >= ACTIVATE_TRIES THEN 0 ELSE act_i + 1
    /\ UNCHANGED <<bits, tasks, retry_count, retry_delay, cnv_i, wpc, events>>

\* ------------------------------------------------------------ producers
\* An external event arrives; a run takes a bounded number of them.
External == events > 0 /\ events' = events - 1

MainAlive == pc \notin {"rebooted", "crashed"}

QueueRoom == Len(main_tasks_) + Len(tasks) < MaxQueue

\* ---- the audio service's callbacks (application.cc:466-468): they only set bits.
AudioEvent ==
    /\ External
    /\ MainAlive
    /\ pc # "start"
    /\ \E b \in {"SEND_AUDIO", "WAKE_WORD_DETECTED", "VAD_CHANGE"} :
         /\ b = "WAKE_WORD_DETECTED" => wake_word_detection
         /\ b \in {"SEND_AUDIO", "VAD_CHANGE"} => voice_processing
         /\ b \notin event_bits
         /\ Become([Begin("audio", b) EXCEPT !.event_bits = @ \cup {b}])
    /\ UNCHANGED <<pc, bits, tasks, retry_count, retry_delay, cnv_i, act_i, wpc>>

\* ---- the callers of the public methods
\* A ToggleChatState that would stop listening and abort in its caller's context.
ToggleChatStateInline(s) ==
    IF s.device_state_ = "Activating" THEN SetDeviceState(s, "Idle")
    ELSE IF s.device_state_ = "WifiConfiguring" THEN SetDeviceState(s, "AudioTesting")
    ELSE IF s.device_state_ = "AudioTesting" THEN SetDeviceState(s, "WifiConfiguring")
    ELSE IF ~s.protocol_ THEN s
    ELSE IF s.device_state_ = "Idle" THEN Schedule(s, "toggle_open")
    ELSE IF s.device_state_ = "Speaking" THEN AbortSpeaking(s, "kAbortReasonNone")
    ELSE IF s.device_state_ = "Listening" THEN SetDeviceState(SendStopListening(s), "Idle")
    ELSE s

\* Application::ToggleChatState (application.cc:279-340).
ToggleChatState(s) ==
    IF s.device_state_ = "Activating" THEN SetDeviceState(s, "Idle")
    ELSE IF s.device_state_ = "WifiConfiguring" THEN SetDeviceState(s, "AudioTesting")
    ELSE IF s.device_state_ = "AudioTesting" THEN SetDeviceState(s, "WifiConfiguring")
    ELSE IF ~s.protocol_ THEN s
    ELSE IF s.device_state_ = "Idle" THEN Schedule(s, "toggle_open")
    ELSE IF s.device_state_ = "Speaking" THEN Schedule(s, "toggle_abort")
    ELSE IF s.device_state_ = "Listening" THEN Schedule(s, "toggle_stop")
    ELSE s

\* Application::StartListening (application.cc:342-392).
StartListening(s) ==
    IF s.device_state_ = "Activating" THEN SetDeviceState(s, "Idle")
    ELSE IF s.device_state_ = "WifiConfiguring" THEN SetDeviceState(s, "AudioTesting")
    ELSE IF ~s.protocol_ THEN s
    ELSE IF s.device_state_ = "Idle" THEN Schedule(s, "start_open")
    ELSE IF s.device_state_ = "Speaking" THEN Schedule(s, "start_abort")
    ELSE s

\* Application::StopListening (application.cc:394-423).
StopListening(s) ==
    IF s.device_state_ = "AudioTesting" THEN SetDeviceState(s, "WifiConfiguring")
    ELSE IF s.device_state_ \notin {"Listening", "Speaking", "Idle"} THEN s
    ELSE Schedule(s, "stop_listen")

\* Application::WakeWordInvoke (application.cc:1073-1103).
WakeWordInvoke(s) ==
    IF s.device_state_ = "Idle" THEN Schedule(ToggleChatState(s), "wake_invoke")
    ELSE IF s.device_state_ = "Speaking" THEN Schedule(s, "toggle_abort")
    ELSE IF s.device_state_ = "Listening" THEN Schedule(s, "invoke_close")
    ELSE s

\* Application::SetAecMode (application.cc:1138-1168).
SetAecMode(s, mode) ==
    Schedule([s EXCEPT !.aec_mode_ = mode, !.log.modes = Append(@, "aec_mode_")], "aec")

CallerOps == {"ToggleChatState", "StartListening", "StopListening", "WakeWordInvoke"}

CallerCall ==
    /\ External
    /\ MainAlive
    /\ pc # "start"
    /\ QueueRoom
    /\ \E op \in CallerOps :
         LET s == Begin("caller", op)
             r == CASE op = "ToggleChatState" -> ToggleChatState(s)
                    [] op = "StartListening" -> StartListening(s)
                    [] op = "StopListening" -> StopListening(s)
                    [] op = "WakeWordInvoke" -> WakeWordInvoke(s)
         IN  /\ Core(r) # Core(s)
             /\ Become(r)
    /\ UNCHANGED <<pc, bits, tasks, retry_count, retry_delay, cnv_i, act_i, wpc>>

CallerSetAecMode ==
    /\ External
    /\ MainAlive
    /\ pc # "start"
    /\ QueueRoom
    /\ \E mode \in AecModes :
         /\ mode # aec_mode_
         /\ Become(SetAecMode(Begin("caller", "SetAecMode"), mode))
    /\ UNCHANGED <<pc, bits, tasks, retry_count, retry_delay, cnv_i, act_i, wpc>>

\* Application::Schedule called with a closure of the caller's own (board code):
\* one that returns, or one that throws.
CallerSchedule ==
    /\ External
    /\ MainAlive
    /\ pc # "start"
    /\ QueueRoom
    /\ \E c \in {"user", "user_throw"} :
         Become(Schedule(Begin("caller", "Schedule"), c))
    /\ UNCHANGED <<pc, bits, tasks, retry_count, retry_delay, cnv_i, act_i, wpc>>

\* ---- the esp_timer task
\* Application::OnClockTimer (application.cc:716-730).
OnClockTimer ==
    /\ External
    /\ MainAlive
    /\ pc # "start"
    /\ clock_ticks_ < MaxTicks
    /\ Become([Begin("timer", "OnClockTimer") EXCEPT !.clock_ticks_ = @ + 1])
    /\ UNCHANGED <<pc, bits, tasks, retry_count, retry_delay, cnv_i, act_i, wpc>>

\* Application::ShowRegistrationPrompt (application.cc:1402-1441): device_state_
\* is assigned directly.
ShowRegistrationPrompt(s) ==
    [StopCameraPreview(s) EXCEPT !.device_state_ = "Idle",
                                 !.log.direct = TRUE,
                                 !.voice_processing = FALSE,
                                 !.wake_word_detection = TRUE]

\* Application::ShowDeviceActivationPrompt (application.cc:1907-2015). ota is what
\* the version check gives: an activation code, no code, or a failed check.
ShowDeviceActivationPrompt(s, ota) ==
    IF ota = "code"
    THEN Schedule(Alert(SetDeviceState(s, "Activating"), "activation"), "activate")
    ELSE Schedule(s, "delay_idle")

\* Application::CheckDeviceActivationAfterLogin (application.cc:1881-1905).
CheckDeviceActivationAfterLogin(s, ok, ota) ==
    IF s.is_device_activated_
    THEN TriggerWakeWordFlow(
             StartDailyCheckTimer([s EXCEPT !.pending_inspection_after_login_ = TRUE]), ok)
    ELSE ShowDeviceActivationPrompt(s, ota)

\* UserManager::SaveUserInfo, reached from ParseServerResponse
\* (user_manager.cc:10-40, 281): the login and today's date are stored.
SaveUserInfo(s) == [s EXCEPT !.logged_in = TRUE, !.date_expired = FALSE]

\* Application::UploadCameraImage (application.cc:1250-1400). recognised is
\* whether the server's response names a user.
UploadCameraImage(s, recognised, ok, ota) ==
    IF recognised
    THEN CheckDeviceActivationAfterLogin(StopCameraUpload(SaveUserInfo(s)), ok, ota)
    ELSE s

\* An upload callback that would go on uploading until a face is recognised.
CameraUploadCallbackNoLimit(s, captured, recognised, ok, ota) ==
    IF s.device_state_ # "Login" THEN s
    ELSE IF captured
    THEN UploadCameraImage([s EXCEPT !.camera_upload_count_ = @ + 1], recognised, ok, ota)
    ELSE s

\* Application::CameraUploadCallback (application.cc:1489-1522). captured is the
\* result of camera->Capture().
CameraUploadCallback(s, captured, recognised, ok, ota) ==
    IF s.device_state_ # "Login" THEN s
    ELSE IF s.camera_upload_count_ >= MAX_UPLOAD_COUNT
    THEN ShowRegistrationPrompt(StopCameraUpload(s))
    ELSE IF captured
    THEN UploadCameraImage([s EXCEPT !.camera_upload_count_ = @ + 1], recognised, ok, ota)
    ELSE s

CameraUploadTick ==
    /\ MainAlive
    /\ camera_upload_timer_
    /\ \E captured, recognised, ok \in BOOLEAN, ota \in {"code", "nocode", "failed"} :
         LET s == Begin("timer", "CameraUploadCallback")
             r == CameraUploadCallback(s, captured, recognised, ok, ota)
         IN  /\ (~captured => ~recognised)
             /\ Core(r) # Core(s)
             /\ Become(r)
    /\ UNCHANGED <<pc, bits, tasks, retry_count, retry_delay, cnv_i, act_i, wpc, events>>

\* Application::CheckDailyExpiration (application.cc:1809-1862). panic is the
\* outcome of a null protocol_ dereference in AbortSpeaking: the chip panics, or
\* the call returns and the function goes on.
CheckDailyExpiration(s, panic) ==
    IF ~s.logged_in THEN s
    ELSE LET a == LoadUserInfo(s)
         IN  IF ~a.logged_in
             THEN LET b == ClearInspectionFlags(
                               StopDailyCheckTimer(StopAutoLogoutTimer(StopInspectionTimer(a))))
                      c == AbortSpeaking(b, "kAbortReasonNone")
                  IN  IF c.log.fault /\ panic THEN c
                      ELSE SetDeviceState(StopListening(c), "Idle")
             ELSE a

DailyCheckTick ==
    /\ MainAlive
    /\ daily_check_timer_
    /\ \E panic \in BOOLEAN :
         LET s == Begin("timer", "DailyCheckCallback")
             r == CheckDailyExpiration(s, panic)
         IN  /\ Core(r) # Core(s)
             /\ ~r.log.fault => panic
             /\ Become(r)
             /\ pc' = IF r.log.fault /\ panic THEN "crashed" ELSE pc
    /\ UNCHANGED <<bits, tasks, retry_count, retry_delay, cnv_i, act_i, wpc, events>>

\* A teardown that would leave the device state alone.
PerformAutoLogoutKeepsState(s) ==
    LET a == ClearUserInfo(ClearInspectionFlags(StopAutoLogoutTimer(StopInspectionTimer(s))))
    IN  StopListening(AbortSpeaking(a, "kAbortReasonNone"))

\* Application::PerformAutoLogout (application.cc:1715-1750).
PerformAutoLogout(s) ==
    LET a == ClearUserInfo(ClearInspectionFlags(StopAutoLogoutTimer(StopInspectionTimer(s))))
        b == AbortSpeaking(a, "kAbortReasonNone")
    IN  SetDeviceState(StopListening(b), "Idle")

\* AutoLogoutCallback (application.cc:1705-1713): the one-shot 24 hour timer
\* expires. Start is over by then: its version check gives up after ten attempts.
AutoLogoutTick ==
    /\ MainAlive
    /\ auto_logout_timer_
    /\ protocol_
    /\ Become(PerformAutoLogout(Begin("timer", "AutoLogoutCallback")))
    /\ UNCHANGED <<pc, bits, tasks, retry_count, retry_delay, cnv_i, act_i, wpc, events>>

\* InspectionCallback (application.cc:1573-1581): the one-shot 60 second timer
\* expires and the inspection request is sent.
InspectionTick ==
    /\ MainAlive
    /\ inspection_timer_
    /\ Become(SendInspectionRequest(Begin("timer", "InspectionCallback")))
    /\ UNCHANGED <<pc, bits, tasks, retry_count, retry_delay, cnv_i, act_i, wpc, events>>

\* StartInspectionTimer and StartAutoLogoutTimer (application.cc:1524-1553,
\* 1658-1692) are public and application.cc never calls them: they run when code
\* outside it does.
CallerStartTimer ==
    /\ External
    /\ MainAlive
    /\ pc # "start"
    /\ \E op \in {"StartInspectionTimer", "StartAutoLogoutTimer"} :
         LET s == Begin("caller", op)
             r == IF op = "StartInspectionTimer" THEN StartInspectionTimer(s)
                  ELSE StartAutoLogoutTimer(s)
         IN  /\ Core(r) # Core(s)
             /\ Become(r)
    /\ UNCHANGED <<pc, bits, tasks, retry_count, retry_delay, cnv_i, act_i, wpc>>

\* Midnight passes: the stored login date is no longer today's.
DateChange ==
    /\ External
    /\ MainAlive
    /\ logged_in
    /\ ~date_expired
    /\ Become([Begin("none", "DateChange") EXCEPT !.date_expired = TRUE])
    /\ UNCHANGED <<pc, bits, tasks, retry_count, retry_delay, cnv_i, act_i, wpc>>

\* ---- the transport's receive task
\* The OnIncomingJson callback (application.cc:539-694), by the message's type
\* and state: the tts messages, stt/llm (a display closure), system reboot, alert,
\* and a type the callback does not know.
JsonKinds == {"tts_start", "tts_stop", "tts_sentence", "display", "reboot", "alert", "unknown"}

\* A callback that takes a type it does not know for a failure of the session.
OnIncomingJsonUnknownIsError(s, kind) ==
    CASE kind \in {"tts_start", "tts_stop", "tts_sentence", "display", "reboot"} ->
            Schedule(s, kind)
      [] kind = "alert" -> Alert(s, "server_alert")
      [] OTHER -> SetError(s, "unknown_message")

OnIncomingJson(s, kind) ==
    CASE kind \in {"tts_start", "tts_stop", "tts_sentence", "display", "reboot"} ->
            Schedule(s, kind)
      [] kind = "alert" -> Alert(s, "server_alert")
      [] OTHER -> s

IncomingJson ==
    /\ External
    /\ MainAlive
    /\ protocol_
    /\ channel
    /\ QueueRoom
    /\ \E kind \in JsonKinds : Become(OnIncomingJson(Begin("net", kind), kind))
    /\ UNCHANGED <<pc, bits, tasks, retry_count, retry_delay, cnv_i, act_i, wpc>>

\* The peer or the transport drops the channel: the OnAudioChannelClosed callback
\* (application.cc:527-538) schedules SetDeviceState(Idle).
ChannelClosed ==
    /\ External
    /\ MainAlive
    /\ protocol_
    /\ channel
    /\ QueueRoom
    /\ Become(Schedule([Begin("net", "OnAudioChannelClosed")
                           EXCEPT !.channel = FALSE, !.log.chan = Append(@, "dropped")],
                       "chan_closed"))
    /\ UNCHANGED <<pc, bits, tasks, retry_count, retry_delay, cnv_i, act_i, wpc>>

\* A transport error: Protocol::SetError and the OnNetworkError callback
\* (protocol.cc:17-24, application.cc:504-509).
NetworkError ==
    /\ External
    /\ MainAlive
    /\ protocol_
    /\ LET s == Begin("net", "OnNetworkError")
           r == SetError(s, "server_error")
       IN  /\ Core(r) # Core(s)
           /\ Become(r)
    /\ UNCHANGED <<pc, bits, tasks, retry_count, retry_delay, cnv_i, act_i, wpc>>

\* ---- the tool-call worker: self.user.account_logout (mcp_server.cc:63-160)
\* An 'mcp' message with a tools/call for the tool starts a detached thread
\* (mcp_server.cc:499-573).
ToolCallLogout ==
    /\ External
    /\ MainAlive
    /\ protocol_
    /\ channel
    /\ wpc = "none"
    /\ Become(Begin("net", "tools/call"))
    /\ wpc' = "called"
    /\ UNCHANGED <<pc, bits, tasks, retry_count, retry_delay, cnv_i, act_i>>

\* The tool up to its first vTaskDelay; when nobody is logged in it returns at once
\* and the reply is handed to SendMcpMessage.
LogoutFirstHalf(s) ==
    IF ~s.logged_in THEN Schedule(s, "mcp_send")
    ELSE LET a == ClearInspectionFlags(
                      StopDailyCheckTimer(StopAutoLogoutTimer(StopInspectionTimer(
                          ClearUserInfo(s)))))
             b == StopListening(AbortSpeaking(a, "kAbortReasonNone"))
         IN  [b EXCEPT !.voice_processing = FALSE, !.wake_word_detection = FALSE]

ToolLogoutCalled ==
    /\ MainAlive
    /\ wpc = "called"
    /\ Become(LogoutFirstHalf(Begin("worker", "account_logout")))
    /\ wpc' = IF logged_in THEN "logout_delay" ELSE "none"
    /\ UNCHANGED <<pc, bits, tasks, retry_count, retry_delay, cnv_i, act_i, events>>

\* After the delays: the audio service is restarted, the device is set Idle and the
\* result is replied.
LogoutSecondHalf(s) ==
    Schedule(SetDeviceState([s EXCEPT !.wake_word_detection = TRUE], "Idle"), "mcp_send")

ToolLogoutResumed ==
    /\ MainAlive
    /\ wpc = "logout_delay"
    /\ Become(LogoutSecondHalf(Begin("worker", "account_logout_end")))
    /\ wpc' = "none"
    /\ UNCHANGED <<pc, bits, tasks, retry_count, retry_delay, cnv_i, act_i, events>>

\* ---- the McpServer: registration, requests and tool_call threads
\* Tools the board may register before Start: a tool with two required
\* properties, another descriptor with the same name, a tool whose descriptor is
\* too long for any page, and a tool with the name of a common tool.
BoardTools ==
    {Tool("self.chassis.move", 3900,
          <<Prop("speed", "integer", FALSE, TRUE), Prop("turbo", "boolean", FALSE, FALSE)>>),
     Tool("self.chassis.move", 400, NoProps),
     Tool("self.lamp.blink", 7960, <<Prop("times", "integer", TRUE, TRUE)>>),
     Tool("self.get_device_status", 5200, NoProps)}

\* The board registers a tool (AddTool, mcp_server.cc:259-272) before Start runs.
BoardAddTool ==
    /\ pc = "start"
    /\ \E tool \in BoardTools :
         /\ Len(tools_) < MaxBoardTools \/ HasName(tools_, tool.name)
         /\ tools_' = AddTool(tools_, tool)
         /\ BecomeApp([Begin("caller", "AddTool") EXCEPT !.log.tool = tool.name])
    /\ UNCHANGED <<tool_threads, pc, bits, tasks, retry_count, retry_delay, cnv_i, act_i, wpc,
                   events, schedule_calls>>

Methods ==
    {"absent", "not_string", "notifications/initialized", "initialize", "tools/list",
     "tools/call", "ping"}

NoMembers == [n \in {} |-> "absent"]

NoArguments == [kind |-> "absent", members |-> NoMembers]

Request(jsonrpc, method, params, id_kind, id, cursor, name, arguments, stackSize) ==
    [jsonrpc |-> jsonrpc, method |-> method, params |-> params, id_kind |-> id_kind,
     id |-> id, cursor |-> cursor, name |-> name, arguments |-> arguments,
     stackSize |-> stackSize]

\* Values of the id of a request.
IdValues == {7, 8}

ToolNames(reg) == {reg[i].name : i \in 1..Len(reg)} \cup {"no.such.tool"}

\* Envelopes that differ in the fields ParseMessage validates.
EnvelopeRequests ==
    {Request("2.0", me, pa, ik, 7, "", "absent", NoArguments, "absent") :
        me \in Methods, pa \in {"absent", "object", "not_object"},
        ik \in {"absent", "not_number", "number"}}
    \cup {Request(j, "tools/list", "object", ik, 7, "", "absent", NoArguments, "absent") :
            j \in {"1.0", "absent"}, ik \in {"absent", "number"}}

\* tools/list requests with a cursor.
ListRequests(reg) ==
    {Request("2.0", "tools/list", "object", "number", id, c, "absent", NoArguments, "absent") :
        id \in IdValues, c \in ToolNames(reg)}

\* The arguments a tools/call for the tool at position t may carry.
ArgumentsFor(reg, t) ==
    LET names == IF t = 0 THEN {} ELSE {reg[t].props[k].name : k \in 1..Len(reg[t].props)}
    IN  {NoArguments, [kind |-> "not_object", members |-> NoMembers]}
        \cup {[kind |-> "object", members |-> f] : f \in [names -> ValueKinds]}

\* tools/call requests with a name.
CallRequests(reg) ==
    UNION {{Request("2.0", "tools/call", "object", "number", id, "", n, a, "absent") :
               id \in IdValues, a \in ArgumentsFor(reg, FindTool(reg, n))}
           \cup {Request("2.0", "tools/call", "object", "number", 7, "", n, NoArguments, st) :
                   st \in {"number", "not_number"}} : n \in ToolNames(reg)}

McpRequests(reg) == EnvelopeRequests \cup ListRequests(reg) \cup CallRequests(reg)

\* The 'mcp' branch of the OnIncomingJson callback (application.cc:636-643): a
\* payload that is an object is given to ParseMessage on the receive task.
IncomingMcp ==
    /\ External
    /\ MainAlive
    /\ protocol_
    /\ channel
    /\ QueueRoom
    /\ Len(tool_threads) < MaxThreads
    /\ \E payload_is_object \in BOOLEAN, req \in McpRequests(tools_) :
         LET m == [app |-> [Begin("net", IF payload_is_object THEN "mcp" ELSE "mcp_no_payload")
                              EXCEPT !.log.req = req],
                   threads |-> tool_threads]
             r == IF payload_is_object THEN ParseMessage(m, tools_, req) ELSE m
         IN  /\ payload_is_object \/ req = Request("2.0", "ping", "absent", "number", 7, "",
                                                   "absent", NoArguments, "absent")
             /\ BecomeApp(r.app)
             /\ tool_threads' = r.threads
    /\ UNCHANGED <<tools_, pc, bits, tasks, retry_count, retry_delay, cnv_i, act_i, wpc,
                   schedule_calls>>

RemoveAt(seq, i) == SubSeq(seq, 1, i - 1) \o SubSeq(seq, i + 1, Len(seq))

\* A tool_call thread begins: the lambda of mcp_server.cc:559-571 calls the tool's
\* callback.
ToolThreadCall ==
    /\ MainAlive
    /\ \E i \in 1..Len(tool_threads) :
         /\ ~tool_threads[i].running
         /\ tool_threads' = [tool_threads EXCEPT ![i].running = TRUE]
         /\ BecomeApp([Begin("worker", "tool_call")
                         EXCEPT !.log.invoked = <<tools_[tool_threads[i].tool].name>>])
    /\ UNCHANGED <<tools_, pc, bits, tasks, retry_count, retry_delay, cnv_i, act_i, wpc, events,
                   schedule_calls>>

\* The callback returns and the thread replies the result, or it throws and the
\* thread replies the error (mcp_server.cc:562-570); the thread ends.
ToolThreadEnd ==
    /\ MainAlive
    /\ QueueRoom
    /\ \E i \in 1..Len(tool_threads), throws \in BOOLEAN :
         /\ tool_threads[i].running
         /\ tool_threads' = RemoveAt(tool_threads, i)
         /\ LET s == Begin("worker", "tool_reply")
            IN  BecomeApp(IF throws THEN ReplyError(s, tool_threads[i].id, "exception", "")
                          ELSE ReplyResult(s, tool_threads[i].id, <<>>, ""))
    /\ UNCHANGED <<tools_, pc, bits, tasks, retry_count, retry_delay, cnv_i, act_i, wpc, events,
                   schedule_calls>>

\* ---- Schedule taken step by step
\* A caller (board code) enters Schedule with a closure of its own that returns,
\* and does the first step of the call.
ScheduleBegin ==
    /\ External
    /\ MainAlive
    /\ pc # "start"
    /\ QueueRoom
    /\ Len(schedule_calls) < MaxQueue
    /\ \E c \in {"user"} :
         /\ BecomeApp(ScheduleStep(Begin("caller", "ScheduleBegin"), c, ScheduleOrder[1]))
         /\ schedule_calls' = Append(schedule_calls, c)
    /\ UNCHANGED <<mcpvars, pc, bits, tasks, retry_count, retry_delay, cnv_i, act_i, wpc>>

\* The caller does the second step and leaves Schedule.
ScheduleEnd ==
    /\ MainAlive
    /\ \E i \in 1..Len(schedule_calls) :
         /\ BecomeApp(ScheduleStep(Begin("caller", "ScheduleEnd"), schedule_calls[i],
                                   ScheduleOrder[2]))
         /\ schedule_calls' = RemoveAt(schedule_calls, i)
    /\ UNCHANGED <<mcpvars, pc, bits, tasks, retry_count, retry_delay, cnv_i, act_i, wpc, events>>

\* ------------------------------------------------------------ specification
MainStep ==
    \/ StartLoad
    \/ CheckNewVersionStep
    \/ CheckNewVersionPoll
    \/ CheckNewVersionSleepRest
    \/ StartProtocol
    \/ LoopWake
    \/ LoopError
    \/ LoopSendAudio
    \/ LoopWakeWord
    \/ LoopVadChange
    \/ LoopTakeTasks
    \/ LoopRunTask
    \/ LoopRunFinal
    \/ LoopBatchDone
    \/ ReconnectDelay
    \/ ReconnectExpire
    \/ DelayIdleDelay
    \/ DelayIdleExpire
    \/ ActivateBegin
    \/ ActivateTry
    \/ ActivateDelayEnd

OtherStep ==
    \/ AudioEvent
    \/ CallerCall
    \/ CallerSetAecMode
    \/ CallerSchedule
    \/ OnClockTimer
    \/ CameraUploadTick
    \/ DailyCheckTick
    \/ AutoLogoutTick
    \/ InspectionTick
    \/ CallerStartTimer
    \/ DateChange
    \/ IncomingJson
    \/ ChannelClosed
    \/ NetworkError
    \/ ToolCallLogout
    \/ ToolLogoutCalled
    \/ ToolLogoutResumed

Next == MainStep \/ OtherStep

Spec == Init /\ [][Next]_vars

\* ------------------------------------------------------------ a governed session
\* The device boots with a login of the same day stored, is activated, and the
\* session timers run while the server and the user talk to it: the scheduler,
\* the inbound messages, the public methods and the timer callbacks, with one more
\* external event than in Spec.
MaxSessionEvents == 3

InitSession ==
    /\ Constructed
    /\ logged_in = TRUE
    /\ date_expired = FALSE
    /\ is_device_activated_ = TRUE
    /\ events = MaxSessionEvents

NextSession ==
    \/ StartLoad
    \/ CheckNewVersionStep
    \/ CheckNewVersionPoll
    \/ CheckNewVersionSleepRest
    \/ StartProtocol
    \/ LoopWake
    \/ LoopError
    \/ LoopTakeTasks
    \/ LoopRunTask
    \/ LoopRunFinal
    \/ LoopBatchDone
    \/ ReconnectDelay
    \/ ReconnectExpire
    \/ IncomingJson
    \/ CallerCall
    \/ CallerStartTimer
    \/ AutoLogoutTick
    \/ InspectionTick
    \/ DailyCheckTick
    \/ DateChange

SpecSession == InitSession /\ [][NextSession]_vars

\* ------------------------------------------------------------ the tool server
\* The device boots with a login of the same day stored, the board having
\* registered its tools; the passive channel opens and the server sends 'mcp'
\* messages while the scheduler runs.
MaxMcpEvents == 2

InitMcp ==
    /\ Constructed
    /\ logged_in = TRUE
    /\ date_expired = FALSE
    /\ is_device_activated_ = TRUE
    /\ events = MaxMcpEvents

NextMcp ==
    \/ BoardAddTool
    \/ StartLoad
    \/ CheckNewVersionStep
    \/ CheckNewVersionPoll
    \/ CheckNewVersionSleepRest
    \/ StartProtocol
    \/ LoopWake
    \/ LoopError
    \/ LoopTakeTasks
    \/ LoopRunTask
    \/ LoopBatchDone
    \/ ReconnectDelay
    \/ ReconnectExpire
    \/ IncomingMcp
    \/ ToolThreadCall
    \/ ToolThreadEnd

SpecMcp == InitMcp /\ [][NextMcp]_vars

\* ------------------------------------------------------------ a login
\* The device boots with nobody logged in: a wake word takes it to Login, the
\* upload timer sends images until the server recognises a user, and the
\* conversation that follows runs with the scheduler, the inbound messages, the
\* public methods and the daily check.
MaxLoginEvents == 3

InitLogin ==
    /\ Constructed
    /\ logged_in = FALSE
    /\ date_expired = FALSE
    /\ is_device_activated_ \in BOOLEAN
    /\ events = MaxLoginEvents

NextLogin ==
    \/ StartLoad
    \/ CheckNewVersionStep
    \/ CheckNewVersionPoll
    \/ CheckNewVersionSleepRest
    \/ StartProtocol
    \/ LoopWake
    \/ LoopError
    \/ LoopSendAudio
    \/ LoopWakeWord
    \/ LoopVadChange
    \/ LoopTakeTasks
    \/ LoopRunTask
    \/ LoopBatchDone
    \/ ReconnectDelay
    \/ ReconnectExpire
    \/ DelayIdleDelay
    \/ DelayIdleExpire
    \/ ActivateBegin
    \/ ActivateTry
    \/ ActivateDelayEnd
    \/ AudioEvent
    \/ CallerCall
    \/ CameraUploadTick
    \/ DailyCheckTick
    \/ DateChange
    \/ IncomingJson

SpecLogin == InitLogin /\ [][NextLogin]_vars

\* ------------------------------------------------------------ fair scheduling
\* The main task has the highest priority of the application's tasks
\* (vTaskPrioritySet(NULL, 3), application.cc:747) and the FreeRTOS scheduler
\* lets every ready task run: the main task keeps taking steps while it has one
\* to take, and a caller inside Schedule finishes the call.
NextFair ==
    \/ MainStep
    \/ AudioEvent
    \/ CallerCall
    \/ CameraUploadTick
    \/ IncomingJson
    \/ ChannelClosed
    \/ NetworkError
    \/ ScheduleBegin
    \/ ScheduleEnd

SpecFair == Init /\ [][NextFair]_vars /\ WF_vars(MainStep) /\ WF_vars(ScheduleEnd)

\* ------------------------------------------------------------ properties
IsPrefix(a, b) == Len(a) <= Len(b) /\ SubSeq(b, 1, Len(a)) = a

\* The closures not yet started, in the order they were appended.
Pending == tasks \o main_tasks_

\* The main task is inside the for loop over a drained batch.
Draining == pc \in {"drain", "reconnect", "delay_idle", "activate", "activate_delay"}

\* C1: SetDeviceState(S) called while device_state_ is already S changes nothing
\* (ticks kept, nobody notified, no entry effect), so two consecutive
\* SetDeviceState(S) calls run the entry effects of S once.
C1_RepeatedCallIsNoOp ==
    \A S \in DeviceStates :
        LET before == Begin("main", "SetDeviceState")
            once == SetDeviceState(before, S)
            twice == SetDeviceState(once, S)
        IN  /\ Core(twice) = Core(once)
            /\ twice.log.entered = once.log.entered
            /\ Len(once.log.entered) <= 1
            /\ device_state_ = S => Core(once) = Core(before) /\ once.log.entered = <<>>

\* A call for the state the device is already in has just been made, with ticks
\* on the counter.
C1_Witness ==
    /\ log.calls # <<>>
    /\ log.entered = <<>>
    /\ log.calls[1] = device_state_
    /\ clock_ticks_ > 0

\* C2: no timer callback, tool worker or caller of the public methods calls
\* SetDeviceState, writes a mode flag, or opens, closes or sends on the protocol
\* itself; all of that is done by the main task.
C2_OnlyMainTaskMutates ==
    log.ctx \in {"timer", "worker", "caller"} =>
        /\ log.calls = <<>>
        /\ log.modes = <<>>
        /\ log.sent = <<>>
        /\ log.opens = 0
        /\ log.closes = 0
        /\ ~log.direct

\* C3: every step that changes device_state_ makes the change through
\* SetDeviceState: the tick counter is reset and the protocol is told the new state.
C3_OnlySetDeviceStateMutates ==
    [][device_state_' # device_state_ =>
          /\ clock_ticks_' = 0
          /\ protocol_' => proto_state' = device_state_'
          /\ log'.entered # <<>>
          /\ log'.entered[Len(log'.entered)] = device_state_'
          /\ ~log'.direct]_vars

\* C4: an iteration of MainEventLoop takes the flags that are set and clears them,
\* handles the categories of those flags in the order error, audio-send, wake-word,
\* voice-activity, closures, none skipped and none twice, and goes back to the wait
\* only when the last of them is done.
C4_FixedOrderPerIteration ==
    [][/\ (pc = "wait" /\ pc' # "wait") =>
             /\ bits' = event_bits \cap WaitBits
             /\ bits' # {}
             /\ event_bits' \cap WaitBits = {}
             /\ pc' \in bits'
             /\ \A b \in bits' : StageIndex(pc') <= StageIndex(b)
       /\ (pc \in WaitBits /\ pc' # pc) =>
             /\ pc \in bits
             /\ bits' = IF pc' \in WaitBits THEN bits ELSE {}
             /\ log'.op = pc
             /\ pc' \in WaitBits => pc' \in bits /\ StageIndex(pc) < StageIndex(pc')
             /\ \A b \in bits :
                   StageIndex(b) > StageIndex(pc) =>
                       /\ pc # "SCHEDULE"
                       /\ pc' \in WaitBits
                       /\ StageIndex(pc') <= StageIndex(b)
             /\ pc' \notin WaitBits => pc' = IF pc = "SCHEDULE" THEN "drain" ELSE "wait"
       /\ (pc # "wait" /\ pc' = "wait" /\ pc # "start_protocol") =>
             /\ tasks' = <<>>
             /\ pc \in WaitBits \cup {"drain"}]_vars

\* The closures stage is reached in an iteration that also held another flag.
C4_Witness ==
    /\ pc = "SCHEDULE"
    /\ Cardinality(bits) >= 2
    /\ log.ctx = "main"
    /\ log.op \in WaitBits

\* C5: closures start in the order Schedule appended them, within a batch and
\* across batches: a step either only appends to the pending closures, or starts
\* the oldest one.
C5_FifoOrder ==
    [][\/ IsPrefix(Pending, tasks' \o main_tasks_')
       \/ /\ Pending # <<>>
          /\ IsPrefix(Tail(Pending), tasks' \o main_tasks_')
          /\ log'.ctx = "main"
          /\ log'.op = Head(Pending)]_vars

\* A closure of a batch has just run while another one of the batch and one
\* appended later are still pending.
C5_Witness ==
    /\ pc = "drain"
    /\ log.ctx = "main"
    /\ log.op \in SimpleTasks
    /\ tasks # <<>>
    /\ main_tasks_ # <<>>

\* C6: the batch being drained never grows: the queue is moved out only at the
\* closures stage of a wake-up, with no batch left; what Schedule appends during a
\* drain stays in the queue; and a closure runs only as the head of the batch.
C6_NoReentrantDrain ==
    [][/\ tasks' # tasks =>
             \/ pc = "SCHEDULE" /\ tasks = <<>> /\ tasks' = main_tasks_ /\ main_tasks_' = <<>>
             \/ pc = "drain" /\ tasks # <<>> /\ tasks' = Tail(tasks)
       /\ Draining => IsPrefix(main_tasks_, main_tasks_')
       /\ (pc = "drain" /\ pc' = "wait") => tasks = <<>>
       /\ (log'.ctx = "main" /\ log'.op \in Tasks) =>
             pc = "drain" /\ tasks # <<>> /\ log'.op = Head(tasks)]_vars

\* A closure of the batch has entered Idle and so appended the reconnect closure,
\* which waits in the queue.
C6_Witness ==
    /\ pc = "drain"
    /\ log.ctx = "main"
    /\ log.op \in SimpleTasks
    /\ log.entered # <<>>
    /\ main_tasks_ # <<>>
    /\ main_tasks_[Len(main_tasks_)] = "reconnect"

\* C7: a closure that throws does not end the main task.
C7_FailureIsSwallowed == pc # "crashed"

\* C8: a step that takes the device into Idle leaves voice processing disabled
\* and wake word detection enabled.
C8_IdleEntryAudio ==
    [][(device_state_' = "Idle" /\ device_state_ # "Idle") =>
          ~voice_processing' /\ wake_word_detection']_vars

\* Idle has just been entered from a state with voice processing running.
C8_Witness ==
    /\ device_state_ = "Idle"
    /\ log.entered # <<>>
    /\ log.entered[Len(log.entered)] = "Idle"
    /\ log.sent = <<"listen_stop">>

\* C9: handling 'tts start' or 'tts stop', on receipt or in their closures, never
\* takes the device into Speaking; only a 'sentence_start' closure does.
C9_StartStopNeverSpeaks ==
    [][/\ log'.op \in {"tts_start", "tts_stop"} =>
             (device_state_' = "Speaking" => device_state_ = "Speaking")
       /\ (device_state_' = "Speaking" /\ device_state_ # "Speaking") =>
             log'.ctx = "main" /\ log'.op = "tts_sentence"]_vars

\* The 'tts start' closure has run and the 'tts stop' closure is the next one.
C9_Witness ==
    /\ log.ctx = "main"
    /\ log.op = "tts_start"
    /\ tts_session_active_
    /\ tasks # <<>>
    /\ Head(tasks) = "tts_stop"
    /\ device_state_ # "Speaking"

\* C10 as stated: the reconnect closure makes one OpenAudioChannel attempt when
\* its delay ends with the device Idle and the user logged in, and none when the
\* state is no longer Idle.
C10_AttemptWheneverIdleAndLoggedIn ==
    [][(pc = "reconnect" /\ pc' # "reconnect") =>
          /\ (device_state_ = "Idle" /\ logged_in) => log'.opens = 1
          /\ device_state_ # "Idle" => log'.opens = 0]_vars

\* C10: entering Idle with a logged-in user, a protocol and no open channel
\* schedules the reconnect closure; when its delay ends the closure makes one
\* OpenAudioChannel attempt if the device is Idle, the user logged in and the
\* channel still not open, and none otherwise.
C10_AttemptOnlyWithoutChannel ==
    [][/\ ( /\ log'.entered # <<>>
            /\ log'.entered[Len(log'.entered)] = "Idle"
            /\ device_state_' = "Idle"
            /\ logged_in' /\ protocol_' /\ ~channel' ) =>
             \E i \in (Len(main_tasks_) + 1)..Len(main_tasks_') :
                 main_tasks_'[i] = "reconnect"
       /\ (pc = "drain" /\ pc' = "reconnect") => log'.opens = 0 /\ channel' = channel
       /\ (pc = "reconnect" /\ pc' # "reconnect") =>
             /\ pc' = "drain"
             /\ log'.opens = IF device_state_ = "Idle" /\ logged_in /\ ~channel THEN 1 ELSE 0
             /\ device_state_' = device_state_]_vars

\* The delay has ended with the device Idle and the user logged in, and the
\* closure has made its attempt.
C10_Witness ==
    /\ log.ctx = "main"
    /\ log.op = "reconnect_expire"
    /\ log.opens = 1
    /\ device_state_ = "Idle"
    /\ logged_in

\* C11: when the tenth consecutive version check fails, CheckNewVersion returns
\* with no protocol created, no channel open and no OpenAudioChannel attempt made
\* (none is made before Start has created the protocol), and Start then leaves the
\* device in Idle, not in Activating, when it reaches the event loop.
C11_GiveUpEndsIdle ==
    [][/\ (pc = "cnv_check" /\ log'.check = "failed" /\ retry_count + 1 >= MAX_RETRY) =>
             /\ pc' = "start_protocol"
             /\ ~protocol_'
             /\ ~channel'
             /\ log'.opens = 0
       /\ pc = "start_protocol" => ~protocol_ /\ ~channel
       /\ (pc = "start_protocol" /\ log'.ctx # "main") => log'.opens = 0 /\ ~protocol_'
       /\ (pc = "start_protocol" /\ log'.ctx = "main") =>
             /\ pc' = "wait"
             /\ device_state_' = "Idle"]_vars

\* The tenth check has just failed and CheckNewVersion has returned.
C11_Witness ==
    /\ pc = "start_protocol"
    /\ log.op = "CheckNewVersion"
    /\ log.check = "failed"
    /\ device_state_ = "Activating"

\* C12: a failed check is the k-th consecutive failure with k <= 10; for k < 10 a
\* wait follows that lasts 10 * 2^(k-1) seconds unless a poll finds Idle, and never
\* longer; the tenth failure is followed by no wait and no further check; a
\* successful check sets the failure counter to 0 and the delay to 10.
C12_BoundedAttemptsDoublingWait ==
    [][/\ pc \in {"cnv_check", "cnv_sleep"} => retry_count < MAX_RETRY
       /\ log'.check = "failed" =>
             IF retry_count + 1 < MAX_RETRY
             THEN pc' = "cnv_sleep" /\ retry_count' = retry_count + 1
             ELSE pc' = "start_protocol" /\ log'.waited = 0
       /\ (pc # "cnv_check" /\ pc' = "cnv_check") => pc \in {"start", "cnv_sleep"}
       /\ (pc = "cnv_sleep" /\ pc' = "cnv_check") =>
             /\ retry_count \in 1..(MAX_RETRY - 1)
             /\ retry_count' = retry_count
             /\ log'.waited \in 1..(10 * 2^(retry_count - 1))
             /\ device_state_ # "Idle" => log'.waited = 10 * 2^(retry_count - 1)
       /\ log'.check = "ok" => retry_count' = 0 /\ retry_delay' = 10]_vars

\* The wait after the second consecutive failure has run its 20 seconds.
C12_Witness ==
    /\ pc = "cnv_check"
    /\ retry_count = 2
    /\ log.waited = 20

\* C13: when the device is Idle during the wait, the main task's next step is the
\* one-second poll that ends the wait: the wait has lasted the seconds polled so
\* far and one more, not retry_delay.
C13_IdleCutsWaitShort ==
    [][(pc = "cnv_sleep" /\ device_state_ = "Idle" /\ log'.ctx = "main") =>
          /\ pc' = "cnv_check"
          /\ log'.op = "CheckNewVersionPoll"
          /\ log'.waited = cnv_i + 1]_vars

\* A wait has just ended at a poll, before its retry_delay seconds were over.
C13_Witness ==
    /\ pc = "cnv_check"
    /\ log.op = "CheckNewVersionPoll"
    /\ log.waited > 0
    /\ 2 * log.waited < retry_delay
    /\ device_state_ = "Idle"

\* C14: with the device Idle inside the version-check retry flow, no step makes
\* another CheckVersion attempt or takes the device out of Idle.
C14_IdleStopsRetrying ==
    [][(pc \in {"cnv_check", "cnv_sleep"} /\ retry_count > 0 /\ device_state_ = "Idle") =>
          /\ log'.check = "none"
          /\ device_state_' = "Idle"]_vars

\* C15: a step that logs the user out (the logout tool, the auto-logout expiry or
\* the daily check) leaves the inspection, auto-logout and daily-check timers
\* stopped.
C15_LogoutStopsAllTimers ==
    [][(logged_in /\ ~logged_in') =>
          /\ ~inspection_timer_'
          /\ ~auto_logout_timer_'
          /\ ~daily_check_timer_']_vars

\* C16: the auto-logout teardown, applied in any state the device can be in once
\* the protocol exists, and each time the timer fires: nobody is logged in, one
\* abort command has been sent, both inspection flags are clear and the device is
\* Idle.
C16_AutoLogoutTeardown ==
    [][/\ protocol_ =>
             LET r == PerformAutoLogout(Begin("timer", "AutoLogoutCallback"))
             IN  /\ ~r.logged_in
                 /\ r.aborted_
                 /\ r.log.sent = <<"abort">>
                 /\ ~r.log.fault
                 /\ ~r.pending_inspection_after_login_
                 /\ ~r.login_tts_completed_
                 /\ r.device_state_ = "Idle"
       /\ log'.op = "AutoLogoutCallback" =>
             /\ auto_logout_timer_
             /\ ~logged_in'
             /\ aborted_'
             /\ log'.sent = <<"abort">>
             /\ ~pending_inspection_after_login_'
             /\ ~login_tts_completed_'
             /\ device_state_' = "Idle"
             /\ pc' = pc]_vars

\* The timer has fired while the device was speaking to a logged-in user.
C16_Witness ==
    /\ log.op = "AutoLogoutCallback"
    /\ log.from = "Speaking"
    /\ log.sent = <<"abort">>
    /\ device_state_ = "Idle"
    /\ ~logged_in

\* C17: a daily-check tick with nobody logged in, or with a login of the current
\* day, changes nothing; a tick with a login of another day logs the user out,
\* sends an abort command, clears both inspection flags and leaves the device Idle.
C17_DailyTickTeardown ==
    [][/\ (~logged_in \/ ~date_expired) =>
             \A panic \in BOOLEAN :
                 Core(CheckDailyExpiration(Begin("timer", "DailyCheckCallback"), panic))
                     = Core(Begin("timer", "DailyCheckCallback"))
       /\ log'.op = "DailyCheckCallback" =>
             /\ logged_in /\ date_expired
             /\ ~logged_in'
             /\ log'.sent = <<"abort">>
             /\ ~pending_inspection_after_login_'
             /\ ~login_tts_completed_'
             /\ device_state_' = "Idle"
             /\ pc' # "crashed"]_vars

\* C18: with a protocol present, AbortSpeaking(reason) sets aborted_, sends one
\* abort command, tagged only for kAbortReasonWakeWordDetected, and changes nothing
\* else; the closure and the wake word handler that only abort leave the device
\* Speaking, so a step that takes the device out of Speaking is another one.
C18_AbortSpeakingFrame ==
    [][/\ protocol_ =>
             \A reason \in AbortReasons :
                 LET s == Begin("main", "AbortSpeaking")
                     r == AbortSpeaking(s, reason)
                 IN  /\ r.aborted_
                     /\ r.log.sent = <<IF reason = "kAbortReasonWakeWordDetected"
                                       THEN "abort_wake_word_detected" ELSE "abort">>
                     /\ Core(r) = [Core(s) EXCEPT !.aborted_ = TRUE]
       /\ (log'.ctx = "main" /\ log'.op = "toggle_abort") =>
             /\ aborted_'
             /\ log'.sent = <<"abort">>
             /\ device_state_' = device_state_
             /\ listening_mode_' = listening_mode_
             /\ tts_session_active_' = tts_session_active_
       /\ (protocol_ /\ device_state_ = "Speaking") =>
             \A ok \in BOOLEAN :
                 LET s == Begin("main", "WAKE_WORD_DETECTED")
                     r == OnWakeWordDetected(s, ok)
                 IN  /\ r.log.sent = <<"abort_wake_word_detected">>
                     /\ Core(r) = [Core(s) EXCEPT !.aborted_ = TRUE]
       /\ (device_state_ = "Speaking" /\ device_state_' # "Speaking") =>
             ~(log'.ctx = "main" /\ log'.op \in {"toggle_abort", "WAKE_WORD_DETECTED"})]_vars

\* The abort closure has run while the device speaks: the abort is sent and the
\* device is still Speaking.
C18_Witness ==
    /\ log.ctx = "main"
    /\ log.op = "toggle_abort"
    /\ log.sent = <<"abort">>
    /\ aborted_
    /\ device_state_ = "Speaking"

\* C19: SetAecMode stores the mode and schedules its closure without touching the
\* channel; when the closure runs it calls CloseAudioChannel if the channel is
\* open, and in every case the channel is not open once it has run.
C19_AecChangeClosesChannel ==
    [][/\ log'.op = "SetAecMode" =>
             /\ main_tasks_' = Append(main_tasks_, "aec")
             /\ aec_mode_' # aec_mode_
             /\ channel' = channel
             /\ log'.closes = 0
       /\ (log'.ctx = "main" /\ log'.op = "aec") =>
             /\ log'.closes = IF channel THEN 1 ELSE 0
             /\ ~channel'
             /\ aec_mode_' = aec_mode_]_vars

\* The closure has run with a channel open and has closed it.
C19_Witness ==
    /\ log.ctx = "main"
    /\ log.op = "aec"
    /\ log.closes = 1
    /\ ~channel
    /\ aec_mode_ # "kAecOff"

\* An error has been reported and the loop has not shown its alert yet.
ErrorPending == "ERROR" \in event_bits \/ pc = "ERROR"

\* C20 as stated: the iteration that handles the error flag forces Idle and shows
\* an alert, and the alert carries the message of every error reported: no
\* reported message is replaced before it has been shown.
C20_EveryErrorMessageShown ==
    [][/\ (pc = "ERROR" /\ pc' # pc) =>
             /\ device_state_' = "Idle"
             /\ log'.alert = last_error_message_
             /\ pc' # "crashed"
       /\ ErrorPending => last_error_message_' = last_error_message_]_vars

\* C20: a reported error stores its message and sets the error flag; an iteration
\* that finds the flag starts with the error stage, which forces Idle and shows an
\* alert with the message stored then, the last one reported; the loop goes on
\* to the next stage or back to the wait.
C20_ErrorForcesIdleAndAlert ==
    [][/\ log'.op = "OnNetworkError" =>
             /\ last_error_message_' = "server_error"
             /\ "ERROR" \in event_bits'
             /\ device_state_' = device_state_
             /\ pc' = pc
       /\ last_error_message_' # last_error_message_ => "ERROR" \in event_bits'
       /\ (pc = "wait" /\ pc' # pc /\ "ERROR" \in event_bits) => pc' = "ERROR"
       /\ (pc = "ERROR" /\ pc' # pc) =>
             /\ device_state_' = "Idle"
             /\ log'.alert = last_error_message_
             /\ log'.alert # "none"
             /\ pc' \in (WaitBits \cup {"wait"}) \ {"ERROR"}]_vars

\* The error stage has just taken the device from another state to Idle and
\* shown the transport's message.
C20_Witness ==
    /\ log.ctx = "main"
    /\ log.op = "ERROR"
    /\ log.alert = "server_error"
    /\ log.from \notin {"none", "Idle"}
    /\ device_state_ = "Idle"
    /\ pc # "crashed"

RECURSIVE ListAll(_, _, _, _)
ListAll(reg, cursor, pages, seen) ==
    LET p == ToolsPage(reg, cursor)
    IN  IF p.error THEN [complete |-> FALSE, tools |-> seen]
        ELSE IF p.next = "" THEN [complete |-> TRUE, tools |-> seen \o p.page]
        ELSE IF pages = 1 THEN [complete |-> FALSE, tools |-> seen \o p.page]
        ELSE ListAll(reg, p.next, pages - 1, seen \o p.page)

\* C22: for every registry in which each tool fits a page on its own, listing
\* from no cursor and following nextCursor ends after at most one page per
\* tool, and the pages put together are the registry in its order, each tool
\* once.
C22_PaginationStable ==
    (\A i \in 1..Len(tools_) : ToolFits(PageOpening, tools_[i])) =>
        LET all == ListAll(tools_, "", Len(tools_) + 1, <<>>)
        IN  /\ all.complete
            /\ all.tools = [i \in 1..Len(tools_) |-> i]

\* A request that ParseMessage gives to GetToolsList with the cursor it carries.
IsListRequest(req) ==
    /\ req.jsonrpc = "2.0"
    /\ req.method = "tools/list"
    /\ req.params = "object"
    /\ req.id_kind = "number"

\* C23: a tools/list request whose cursor is the name of no registered tool is
\* answered with one result that has an empty tools list and no nextCursor.
C23_UnknownCursorEmptyPage ==
    [][ ( /\ log'.op = "mcp"
          /\ IsListRequest(log'.req)
          /\ log'.req.cursor # ""
          /\ ~HasName(tools_, log'.req.cursor) ) =>
        log'.replies = <<Payload(log'.req.id, "result", <<>>, "", "", "")>> ]_vars

\* The cursor GetToolsList is called with for a tools/list request.
CursorOf(req) == IF req.params = "object" THEN req.cursor ELSE ""

\* The position a page for the cursor starts at: 0 when there is no such tool.
PageStart(reg, cursor) ==
    IF cursor = "" THEN (IF reg = <<>> THEN 0 ELSE 1) ELSE FindTool(reg, cursor)

\* The bytes of a page that holds the tools at positions a..b.
RECURSIVE PageLength(_, _, _)
PageLength(reg, a, b) ==
    IF a > b THEN PageOpening ELSE PageLength(reg, a, b - 1) + reg[b].size + 1

\* C24: a tools/list request gets one reply. It is an error exactly when the
\* first tool of the page exceeds the budget on its own. A result holds the
\* tools from the start of the page on; it has a nextCursor only when the tool
\* after the last one on the page would exceed the budget, and the nextCursor
\* is that tool's name; without a nextCursor the page reaches the end of the
\* registry.
C24_TruncationAndError ==
    [][ ( /\ log'.op = "mcp"
          /\ log'.req.jsonrpc = "2.0"
          /\ log'.req.method = "tools/list"
          /\ log'.req.params # "not_object"
          /\ log'.req.id_kind = "number" ) =>
        LET start == PageStart(tools_, CursorOf(log'.req))
            r == log'.replies[1]
            n == Len(r.tools)
        IN  /\ Len(log'.replies) = 1
            /\ r.id = log'.req.id
            /\ r.kind = "error" <=>
                 (start # 0 /\ PageLength(tools_, start, start) + PageReserve > max_payload_size)
            /\ r.kind = "result" =>
                 /\ start = 0 => n = 0 /\ r.nextCursor = ""
                 /\ start # 0 =>
                      /\ start + n - 1 <= Len(tools_)
                      /\ r.tools = [k \in 1..n |-> tools_[start + k - 1].name]
                      /\ IF r.nextCursor = "" THEN start + n - 1 = Len(tools_)
                         ELSE /\ start + n <= Len(tools_)
                              /\ r.nextCursor = tools_[start + n].name
                              /\ PageLength(tools_, start, start + n) + PageReserve
                                   > max_payload_size ]_vars

\* A request that ParseMessage gives to DoToolCall.
IsCallRequest(req) ==
    /\ req.jsonrpc = "2.0"
    /\ req.method = "tools/call"
    /\ req.params = "object"
    /\ req.id_kind = "number"
    /\ req.name # "absent"
    /\ req.arguments.kind # "not_object"
    /\ req.stackSize # "not_number"

\* The value a request supplies for a property.
Supplied(req, prop) ==
    IF req.arguments.kind = "object" THEN GetItem(req.arguments.members, prop.name)
    ELSE "absent"

\* The property has no default value and the request has no value of its type.
Unbound(req, prop) == ~prop.has_default /\ ~Binds(prop, Supplied(req, prop))

\* Binding the supplied value raises an exception.
Raises(req, prop) ==
    Binds(prop, Supplied(req, prop)) /\ SetValueThrows(prop, Supplied(req, prop))

\* C25 as stated: for every declared property without a default value that the
\* request does not supply with a value of its type, the call starts no thread
\* and its one reply is the error that names this property; a bind exception
\* gives the error with the exception's message and no thread.
C25_EveryMissingArgumentNamed ==
    [][ ( /\ log'.op = "mcp"
          /\ IsCallRequest(log'.req)
          /\ HasName(tools_, log'.req.name) ) =>
        LET props == tools_[FindTool(tools_, log'.req.name)].props
        IN  \A k \in 1..Len(props) :
              /\ Unbound(log'.req, props[k]) =>
                   /\ log'.started = 0 /\ tool_threads' = tool_threads
                   /\ log'.replies = <<Payload(log'.req.id, "error", <<>>, "",
                                               "Missing valid argument", props[k].name)>>
              /\ ( /\ Raises(log'.req, props[k])
                   /\ \A j \in 1..(k - 1) : ~Unbound(log'.req, props[j]) ) =>
                   /\ log'.started = 0 /\ tool_threads' = tool_threads
                   /\ log'.replies[1].kind = "error"
                   /\ log'.replies[1].message = "exception" ]_vars

\* C25, amended: when some declared property is unbound without a default or
\* raises a bind exception, the call starts no thread, invokes no callback and
\* gives exactly one reply, decided by the first such property in declaration
\* order: the error naming it when it is unbound, the exception's message when
\* its binding raised.
C25_FirstFailureDecidesReply ==
    [][ ( /\ log'.op = "mcp"
          /\ IsCallRequest(log'.req)
          /\ HasName(tools_, log'.req.name) ) =>
        LET props == tools_[FindTool(tools_, log'.req.name)].props
            failing == {k \in 1..Len(props) :
                          Unbound(log'.req, props[k]) \/ Raises(log'.req, props[k])}
        IN  failing # {} =>
              LET first == CHOOSE k \in failing : \A j \in failing : k <= j
              IN  /\ log'.started = 0
                  /\ log'.invoked = <<>>
                  /\ tool_threads' = tool_threads
                  /\ log'.replies =
                       <<IF Unbound(log'.req, props[first])
                         THEN Payload(log'.req.id, "error", <<>>, "",
                                      "Missing valid argument", props[first].name)
                         ELSE Payload(log'.req.id, "error", <<>>, "", "exception",
                                      props[first].name)>> ]_vars

\* A call has supplied the first property and a value of another type for the
\* second, and the reply names the second.
C25_Witness ==
    /\ log.op = "mcp"
    /\ IsCallRequest(log.req)
    /\ log.req.name = "self.chassis.move"
    /\ log.req.arguments.kind = "object"
    /\ GetItem(log.req.arguments.members, "speed") = "number"
    /\ GetItem(log.req.arguments.members, "turbo") = "string"
    /\ log.replies = <<Payload(log.req.id, "error", <<>>, "", "Missing valid argument",
                               "turbo")>>
    /\ log.started = 0

\* A tools/call request that passes the validation of the envelope.
IsCallEnvelope(req) ==
    /\ req.jsonrpc = "2.0"
    /\ req.method = "tools/call"
    /\ req.params # "not_object"
    /\ req.id_kind = "number"

\* C26: a tools/call request that passes the validation of the envelope either
\* gets its one reply at once (unknown tool, failed binding, malformed
\* parameters) or starts one detached thread that holds its id; a thread that
\* ends hands over exactly one reply, a result or an error, with that id, and is
\* gone; threads appear and disappear in no other way, so no call is answered
\* twice. Every reply is handed to SendMcpMessage, which appends one closure. A
\* tool's callback runs only in a step of a detached thread: never on the
\* receive task or the main task, whose position, batch and bits such a step
\* leaves alone.
C26_OneReplyPerCallOffTheScheduler ==
    [][ /\ (log'.op = "mcp" /\ IsCallEnvelope(log'.req)) =>
             /\ Len(log'.replies) + log'.started = 1
             /\ \A k \in 1..Len(log'.replies) : log'.replies[k].id = log'.req.id
             /\ log'.started = 1 =>
                  /\ Len(tool_threads') = Len(tool_threads) + 1
                  /\ SubSeq(tool_threads', 1, Len(tool_threads)) = tool_threads
                  /\ tool_threads'[Len(tool_threads')].id = log'.req.id
                  /\ ~tool_threads'[Len(tool_threads')].running
             /\ log'.started = 0 => tool_threads' = tool_threads
        /\ log'.op = "tool_reply" =>
             /\ Len(log'.replies) = 1
             /\ log'.replies[1].kind \in {"result", "error"}
             /\ \E i \in 1..Len(tool_threads) :
                  /\ tool_threads[i].running
                  /\ log'.replies[1].id = tool_threads[i].id
                  /\ tool_threads' = RemoveAt(tool_threads, i)
        /\ log'.op = "tool_call" =>
             /\ log'.replies = <<>>
             /\ Len(tool_threads') = Len(tool_threads)
        /\ log'.op \notin {"mcp", "tool_reply", "tool_call"} =>
             tool_threads' = tool_threads /\ log'.replies = <<>>
        /\ log'.replies # <<>> =>
             main_tasks_' = main_tasks_ \o [k \in 1..Len(log'.replies) |-> "mcp_send"]
        /\ log'.invoked # <<>> =>
             /\ log'.ctx = "worker"
             /\ pc' = pc /\ tasks' = tasks /\ bits' = bits
             /\ main_tasks_' = main_tasks_ ]_vars

\* While a tool that was called has not returned, the main task sends the reply
\* of another request.
C26_Witness ==
    /\ \E i \in 1..Len(tool_threads) : tool_threads[i].running
    /\ log.ctx = "main"
    /\ log.sent = <<"mcp">>

\* The method is a string that does not start with 'notifications'.
IsRequestMethod(method) == method \in {"initialize", "tools/list", "tools/call", "ping"}

\* C27: ParseMessage gives no reply and starts no tool call for an envelope
\* whose jsonrpc is not "2.0", whose method is missing or a notification, or
\* whose id is missing or not a number; every other envelope is dispatched to
\* exactly one of initialize (a result), tools/list (its one reply), tools/call
\* (one reply or one thread) or answered with the error 'Method not implemented'.
C27_ValidationThenOneDispatch ==
    [][ log'.op = "mcp" =>
        LET req == log'.req
            silent == \/ req.jsonrpc # "2.0"
                      \/ ~IsRequestMethod(req.method)
                      \/ req.id_kind # "number"
        IN  /\ silent =>
                 log'.replies = <<>> /\ log'.started = 0 /\ tool_threads' = tool_threads
            /\ ~silent =>
                 /\ Len(log'.replies) + log'.started = 1
                 /\ req.method = "initialize" =>
                      log'.replies = <<Payload(req.id, "result", <<>>, "", "", "")>>
                 /\ req.method = "tools/list" => log'.started = 0
                 /\ req.method = "ping" =>
                      log'.replies = <<Payload(req.id, "error", <<>>, "",
                                               "Method not implemented", "ping")>> ]_vars

\* The request lacks what its method needs, or has it in the wrong form.
Malformed(req) ==
    \/ req.params = "not_object"
    \/ /\ req.method = "tools/call"
       /\ \/ req.params # "object"
          \/ req.name = "absent"
          \/ req.arguments.kind = "not_object"
          \/ req.stackSize = "not_number"

\* C28: a request (jsonrpc "2.0", a method that is no notification) that carries
\* a numeric id is never dropped: it gets a reply or starts a tool call, and when
\* it is malformed its one reply is an error with that id.
C28_MalformedWithIdAnswered ==
    [][ ( /\ log'.op = "mcp"
          /\ log'.req.jsonrpc = "2.0"
          /\ IsRequestMethod(log'.req.method)
          /\ log'.req.id_kind = "number" ) =>
        /\ Len(log'.replies) + log'.started >= 1
        /\ Malformed(log'.req) =>
             /\ Len(log'.replies) = 1
             /\ log'.replies[1].kind = "error"
             /\ log'.replies[1].id = log'.req.id ]_vars

\* C29: no two registered tools have the same name, whatever AddTool and
\* AddCommonTools calls were made; an AddTool for a name that is registered
\* leaves the registry as it is.
C29_ToolNamesUnique ==
    [][ /\ \A i, j \in 1..Len(tools_') : tools_'[i].name = tools_'[j].name => i = j
        /\ (log'.op = "AddTool" /\ HasName(tools_, log'.tool)) => tools_' = tools_ ]_vars

\* C30: a message whose type is none of the handled ones changes no field of
\* the application (device state, modes, flags, timers, event bits, closure
\* queue), sends nothing, shows no alert and leaves the main task where it was.
C30_UnknownTypeDropped ==
    [][ (log'.ctx = "net" /\ log'.op = "unknown") =>
          /\ Core(Cur)' = Core(Cur)
          /\ log'.sent = <<>>
          /\ log'.alert = "none"
          /\ log'.calls = <<>>
          /\ pc' = pc /\ tasks' = tasks /\ bits' = bits
          /\ MainAlive' ]_vars

\* A message of an unknown type has arrived while a closure was waiting in the
\* queue and the device was not idle.
C30_Witness ==
    /\ log.ctx = "net"
    /\ log.op = "unknown"
    /\ main_tasks_ # <<>>
    /\ device_state_ # "Idle"

\* C31: the post-login notification is fired on entry to Listening exactly when
\* the pending-after-login flag and the login-speech-completed flag are both set,
\* and the entry clears both; the completed flag is set only by a 'tts stop' closure
\* that finds the pending flag set, the pending flag only by a login, so a step
\* fires at most once, only with the pending flag of a login still set, and only
\* after (or in) a 'tts stop' closure that followed that login.
C31_OneShotAfterLoginSpeech ==
    [][/\ \A S \in DeviceStates :
            LET r == SetDeviceState(Begin("main", "SetDeviceState"), S)
                both == pending_inspection_after_login_ /\ login_tts_completed_
            IN  /\ r.log.inspections =
                       IF S = "Listening" /\ device_state_ # "Listening" /\ both THEN 1 ELSE 0
                /\ r.log.inspections = 1 =>
                       ~r.pending_inspection_after_login_ /\ ~r.login_tts_completed_
       /\ login_tts_completed_' => pending_inspection_after_login_'
       /\ login_tts_completed_' /\ ~login_tts_completed_ =>
              log'.op = "tts_stop" /\ log'.ctx = "main" /\ pending_inspection_after_login_
       /\ pending_inspection_after_login_' /\ ~pending_inspection_after_login_ =>
              /\ log'.op \in {"CameraUploadCallback", "activate_ok"}
              /\ logged_in'
              /\ log'.inspections = 0
       /\ log'.inspections > 0 /\ log'.op # "InspectionCallback" =>
              /\ log'.inspections = 1
              /\ "Listening" \in {log'.entered[i] : i \in 1..Len(log'.entered)}
              /\ pending_inspection_after_login_
              /\ login_tts_completed_ \/ log'.op = "tts_stop"
              /\ ~pending_inspection_after_login_'
              /\ ~login_tts_completed_']_vars

\* The notification has just been fired by an entry to Listening for a user who
\* logged in through the camera.
C31_Witness ==
    /\ log.inspections = 1
    /\ log.op # "InspectionCallback"
    /\ log.entered # <<>>
    /\ log.entered[Len(log.entered)] = "Listening"
    /\ logged_in
    /\ ~pending_inspection_after_login_

\* C32: whatever the device state, a call of ToggleChatState, StartListening or
\* StopListening opens no channel, closes none and sends no command in the
\* caller's context; the closures these methods schedule run in the main task, and
\* only there are the channel opened or closed and the stop-listening and abort
\* commands sent.
C32_ChannelWorkOnlyInClosures ==
    [][/\ \A op \in {"ToggleChatState", "StartListening", "StopListening"} :
            LET s == Begin("caller", op)
                r == CASE op = "ToggleChatState" -> ToggleChatState(s)
                       [] op = "StartListening" -> StartListening(s)
                       [] op = "StopListening" -> StopListening(s)
            IN  /\ r.log.chan = <<>>
                /\ r.log.opens = 0
                /\ r.log.closes = 0
                /\ r.log.sent = <<>>
                /\ r.channel = channel
                /\ Len(r.main_tasks_) <= Len(main_tasks_) + 1
       /\ log'.op \in {"ToggleChatState", "StartListening", "StopListening"} =>
              log'.chan = <<>> /\ log'.sent = <<>> /\ channel' = channel
       /\ log'.op \in {"toggle_open", "toggle_abort", "toggle_stop", "start_open",
                       "start_abort", "stop_listen"} =>
              log'.ctx = "main" /\ pc = "drain"]_vars

\* The closure ToggleChatState scheduled has just opened the channel in the main
\* task.
C32_Witness ==
    /\ log.op = "toggle_open"
    /\ log.ctx = "main"
    /\ log.chan # <<>>
    /\ log.chan[Len(log.chan)] = "open_ok"
    /\ device_state_ = "Listening"

\* C33: a 'tts stop' closure that runs while the device is Speaking moves it to
\* Idle when listening_mode_ is ManualStop and to Listening otherwise; one that
\* runs in any other state leaves device_state_ as it is; in both cases
\* tts_session_active_ is false afterwards.
C33_TtsStopByListeningMode ==
    [][/\ LET r == TtsStop(Begin("main", "tts_stop"))
          IN  /\ ~r.tts_session_active_
              /\ r.device_state_ =
                     IF device_state_ # "Speaking" THEN device_state_
                     ELSE IF listening_mode_ = "ManualStop" THEN "Idle" ELSE "Listening"
              /\ device_state_ # "Speaking" => r.log.calls = <<>>
       /\ log'.op = "tts_stop" /\ log'.ctx = "main" =>
              /\ ~tts_session_active_'
              /\ listening_mode_' = listening_mode_
              /\ device_state_' =
                     IF device_state_ # "Speaking" THEN device_state_
                     ELSE IF listening_mode_ = "ManualStop" THEN "Idle" ELSE "Listening"]_vars

\* A 'tts stop' closure has just ended a spoken reply and the device listens again.
C33_Witness ==
    /\ log.op = "tts_stop"
    /\ log.ctx = "main"
    /\ log.from = "Speaking"
    /\ device_state_ = "Listening"
    /\ ~tts_session_active_

\* C34: every closure handed to Schedule is run, once: closures leave the queue
\* only from its head, by being run in the main task; the main task never waits
\* with the schedule flag clear while a closure is queued and no Schedule call is
\* about to set the flag; and, the main task and the callers being scheduled
\* fairly, whenever closures are pending the queue is eventually drained, unless
\* the device restarts first.
C34_EveryClosureRunOnce ==
    /\ [][/\ IsPrefix(Pending, Pending')
             \/ /\ Pending # <<>>
                /\ IsPrefix(Tail(Pending), Pending')
                /\ log'.ctx = "main"
                /\ log'.op = Head(Pending)
          /\ tasks # <<>> /\ tasks' # tasks => tasks' = Tail(tasks)]_vars
    /\ [](pc = "wait" /\ main_tasks_ # <<>> /\ schedule_calls = <<>>
            => "SCHEDULE" \in event_bits)
    /\ (Pending # <<>>) ~> (Pending = <<>> \/ ~MainAlive)

\* The main task waits with the flag clear while a closure is already in the
\* queue: its caller has appended it and has not yet set the flag.
C34_Witness ==
    /\ pc = "wait"
    /\ main_tasks_ # <<>>
    /\ "SCHEDULE" \notin event_bits
    /\ schedule_calls # <<>>

\* C35: an OpenAudioChannel attempt that fails after the device went to
\* Connecting either is followed by SetDeviceState(Idle) in the same step (the
\* post-login flow) or leaves the network-error flag set for the main task;
\* whenever the device is in Connecting between two steps that flag is pending or
\* being handled; and, the main task being scheduled fairly, a device in
\* Connecting eventually is in Idle, unless it restarts first.
C35_ConnectingIsLeft ==
    /\ [][LET failed == /\ log'.chan # <<>>
                        /\ log'.chan[Len(log'.chan)] = "open_failed"
                        /\ "Connecting" \in {log'.entered[i] : i \in 1..Len(log'.entered)}
          IN  /\ failed => device_state_' \in {"Connecting", "Idle"}
              /\ failed /\ device_state_' = "Connecting" =>
                     log'.ctx = "main" /\ "ERROR" \in event_bits'
              /\ failed /\ log'.op \in {"CameraUploadCallback", "activate_ok"} =>
                     device_state_' = "Idle"]_vars
    /\ [](device_state_ = "Connecting" /\ MainAlive =>
            "ERROR" \in event_bits \/ pc = "ERROR")
    /\ (device_state_ = "Connecting") ~> (device_state_ = "Idle" \/ ~MainAlive)

\* The wake word found the device Idle with a user logged in and no channel; the
\* attempt to open one has just failed and the device is in Connecting.
C35_Witness ==
    /\ device_state_ = "Connecting"
    /\ log.op = "WAKE_WORD_DETECTED"
    /\ log.chan = <<"open_failed">>
    /\ logged_in

\* C36: the closure ToggleChatState or StartListening schedules in Idle acts only
\* if the device is still Idle when it runs: run in another state it closes no
\* channel, opens none and leaves device_state_ alone.
C36_OpenClosureRechecksIdle ==
    [][log'.op \in {"toggle_open", "start_open"} /\ log'.ctx = "main"
           /\ device_state_ # "Idle" =>
           /\ log'.closes = 0
           /\ log'.opens = 0
           /\ log'.entered = <<>>
           /\ device_state_' = device_state_]_vars

\* C37: with the device Idle and nobody logged in, no step of the wake-word
\* handler, of ToggleChatState, StartListening or WakeWordInvoke, or of a closure
\* they scheduled takes the device to Connecting or Listening; the wake-word
\* handler closes an open channel and takes the device to Login.
C37_NoConversationWithoutLogin ==
    [][~logged_in /\ device_state_ = "Idle"
           /\ log'.op \in {"WAKE_WORD_DETECTED", "ToggleChatState", "StartListening",
                          "WakeWordInvoke", "toggle_open", "start_open", "wake_invoke"}
           /\ log'.ctx \in {"main", "caller"} =>
           /\ device_state_' \notin {"Connecting", "Listening"}
           /\ \A i \in 1..Len(log'.entered) : log'.entered[i] \notin {"Connecting", "Listening"}
           /\ log'.op = "WAKE_WORD_DETECTED" /\ protocol_ =>
                  device_state_' = "Login" /\ ~channel']_vars

\* C38: the camera preview timer and the camera upload timer run only while the
\* device is in Login, and StartCameraPreview and StartCameraUpload are called
\* only when the timer they create does not exist.
C38_CameraTimersOnlyInLogin ==
    [][/\ camera_preview_timer_' \/ camera_upload_timer_' => device_state_' = "Login"
       /\ "Login" \in {log'.entered[i] : i \in 1..Len(log'.entered)} =>
              ~camera_preview_timer_ /\ ~camera_upload_timer_]_vars

\* C39: once Start has loaded the stored login, the daily-check timer runs
\* whenever a user is logged in, whether or not the device is activated.
C39_DailyCheckRunsWhileLoggedIn ==
    pc # "start" /\ logged_in => daily_check_timer_

\* C40: a login attempt is bounded. camera_upload_count_ never exceeds
\* MAX_UPLOAD_COUNT; it starts at 0 on entry to Login and grows by one per
\* uploaded image, only in the upload callback, only in Login and only below the
\* limit; the upload tick that finds the limit reached uploads nothing, stops the
\* upload and preview timers and leaves the device in Idle with voice processing
\* disabled and wake word detection enabled.
C40_LoginAttemptBounded ==
    [][/\ camera_upload_count_' <= MAX_UPLOAD_COUNT
       /\ device_state_' = "Login" /\ device_state_ # "Login" => camera_upload_count_' = 0
       /\ camera_upload_count_' > camera_upload_count_ =>
              /\ camera_upload_count_' = camera_upload_count_ + 1
              /\ log'.op = "CameraUploadCallback"
              /\ device_state_ = "Login"
              /\ camera_upload_timer_
       /\ log'.op = "CameraUploadCallback" /\ device_state_ = "Login"
              /\ camera_upload_count_ >= MAX_UPLOAD_COUNT =>
              /\ ~camera_upload_timer_'
              /\ ~camera_preview_timer_'
              /\ device_state_' = "Idle"
              /\ ~voice_processing'
              /\ wake_word_detection'
              /\ camera_upload_count_' = 0
              /\ ~logged_in']_vars

\* Ten images were uploaded and none was recognised; the upload tick after them
\* has just ended the attempt.
C40_Witness ==
    /\ log.op = "CameraUploadCallback"
    /\ log.direct
    /\ device_state_ = "Idle"
    /\ ~camera_upload_timer_
    /\ ~camera_preview_timer_
    /\ ~logged_in

====
